---- MODULE Spec2Model ----
(***************************************************************************)
(* Model of the orchestration core of asimkasi/agenticai:                  *)
(*   src/workflow_engine.py          WorkflowEngine                        *)
(*   src/ai_app_builder_workflow.py  AIAgent, GrandOrchestrator            *)
(*                                                                         *)
(* Python values are tagged records [t, v].  A string is a sequence of     *)
(* indivisible text atoms; a reference such as {{event.user_idea}} is one  *)
(* atom.  A dotted key 'a.b' is kept in its split form <<"a", "b">>.       *)
(***************************************************************************)
EXTENDS Integers, Sequences, FiniteSets, TLC

\* ---------------------------------------------------------- Python values
None == [t |-> "none", v |-> 0]
Str(toks) == [t |-> "str", v |-> toks]
S(atom) == [t |-> "str", v |-> <<atom>>]
IntV(n) == [t |-> "int", v |-> n]
EmptyMap == [k \in {} |-> None]
Dict(f) == [t |-> "dict", v |-> f]
DefaultDict(f) == [t |-> "defaultdict", v |-> f]
List(s) == [t |-> "list", v |-> s]

\* isinstance(x, dict): a defaultdict is a dict
IsDict(x) == x.t \in {"dict", "defaultdict"}

\* Python truthiness (if x / if not x)
Truthy(x) ==
    CASE x.t = "none" -> FALSE
      [] x.t = "str" -> x.v # <<>>
      [] x.t = "int" -> x.v # 0
      [] x.t = "list" -> x.v # <<>>
      [] OTHER -> DOMAIN x.v # {}

\* Python ==: a dict and a defaultdict with the same items are equal
PyEq(a, b) == IF IsDict(a) /\ IsDict(b) THEN a.v = b.v ELSE a = b

Put(f, k, x) == [y \in DOMAIN f \cup {k} |-> IF y = k THEN x ELSE f[y]]

\* the root with the value at path replaced (every prefix of path is a dict)
RECURSIVE PutAt(_, _, _)
PutAt(d, path, x) ==
    IF Len(path) = 1
    THEN [d EXCEPT !.v = Put(d.v, path[1], x)]
    ELSE [d EXCEPT !.v = Put(d.v, path[1], PutAt(d.v[path[1]], Tail(path), x))]

\* for part in parts: current = current[part]
\* ok = FALSE stands for KeyError / TypeError; data is the root afterwards
\* (subscripting a defaultdict with an absent key stores and yields int() = 0)
RECURSIVE SubscriptFrom(_, _, _, _)
SubscriptFrom(root, cur, parts, i) ==
    IF i > Len(parts) THEN [ok |-> TRUE, val |-> cur, data |-> root]
    ELSE IF ~IsDict(cur) THEN [ok |-> FALSE, val |-> None, data |-> root]
    ELSE IF parts[i] \in DOMAIN cur.v
         THEN SubscriptFrom(root, cur.v[parts[i]], parts, i + 1)
    ELSE IF cur.t = "defaultdict"
         THEN SubscriptFrom(PutAt(root, SubSeq(parts, 1, i), IntV(0)),
                            IntV(0), parts, i + 1)
    ELSE [ok |-> FALSE, val |-> None, data |-> root]

SubscriptWalk(root, parts) == SubscriptFrom(root, root, parts, 1)

\* getattr(value, part, None) on a value that is not a dict: the only
\* attribute in the key universe that such a value has is int.real
GetAttr(x, part) == IF x.t = "int" /\ part = "real" THEN x ELSE None

\* for part in parts: value = value.get(part) if dict else getattr(...);
\*                    if value is None: break
RECURSIVE GetFrom(_, _, _)
GetFrom(cur, parts, i) ==
    IF i > Len(parts) THEN cur
    ELSE LET nxt == IF IsDict(cur)
                    THEN (IF parts[i] \in DOMAIN cur.v THEN cur.v[parts[i]] ELSE None)
                    ELSE GetAttr(cur, parts[i])
         IN IF nxt = None THEN None ELSE GetFrom(nxt, parts, i + 1)

GetWalkBySubscript(root, parts) ==
    LET w == SubscriptWalk(root, parts)
    IN [exc |-> ~w.ok, val |-> w.val, data |-> w.data]

GetWalk(root, parts) == [exc |-> FALSE, val |-> GetFrom(root, parts, 1), data |-> root]

\* --------------------------------------------------------- WorkflowEngine
\* A rule table maps an event kind to a sequence of handlers
\* [conditions, actions].  conditions is the sequence of the items of the
\* 'conditions' map: [name, isdict, pairs], pairs the items of the group's
\* map: [key, expected].  An action is a map from field names to values.

\* the loop over condition_value.items() of one group, from pair j on
RECURSIVE CheckPairs(_, _, _)
CheckPairs(pairs, j, data) ==
    IF j > Len(pairs) THEN [ok |-> TRUE, data |-> data]
    ELSE LET w == SubscriptWalk(data, pairs[j].key)
         IN IF ~w.ok THEN [ok |-> FALSE, data |-> w.data]
            ELSE IF ~PyEq(w.val, pairs[j].expected) THEN [ok |-> FALSE, data |-> w.data]
            ELSE CheckPairs(pairs, j + 1, w.data)

CheckGroupLenient(group, event_data, project_state) ==
    IF group.name = "event_data" /\ group.isdict
    THEN LET r == CheckPairs(group.pairs, 1, event_data)
         IN [ok |-> r.ok, event |-> r.data, state |-> project_state]
    ELSE IF group.name = "project_state" /\ group.isdict
    THEN LET r == CheckPairs(group.pairs, 1, project_state)
         IN [ok |-> r.ok, event |-> event_data, state |-> r.data]
    ELSE [ok |-> TRUE, event |-> event_data, state |-> project_state]

\* one iteration of the loop over conditions.items()
CheckGroup(group, event_data, project_state) ==
    IF group.name = "event_data"
    THEN IF ~group.isdict
         THEN [ok |-> FALSE, event |-> event_data, state |-> project_state]
         ELSE LET r == CheckPairs(group.pairs, 1, event_data)
              IN [ok |-> r.ok, event |-> r.data, state |-> project_state]
    ELSE IF group.name = "project_state"
    THEN IF ~group.isdict
         THEN [ok |-> FALSE, event |-> event_data, state |-> project_state]
         ELSE LET r == CheckPairs(group.pairs, 1, project_state)
              IN [ok |-> r.ok, event |-> event_data, state |-> r.data]
    ELSE [ok |-> FALSE, event |-> event_data, state |-> project_state]

RECURSIVE CheckGroupsFrom(_, _, _, _)
CheckGroupsFrom(conditions, i, event_data, project_state) ==
    IF i > Len(conditions)
    THEN [ok |-> TRUE, event |-> event_data, state |-> project_state]
    ELSE LET g == CheckGroup(conditions[i], event_data, project_state)
         IN IF ~g.ok THEN g
            ELSE CheckGroupsFrom(conditions, i + 1, g.event, g.state)

_check_conditions_consuming(conditions, event_data, project_state) ==
    LET r == CheckGroupsFrom(conditions, 1, event_data, project_state)
    IN IF r.ok /\ conditions # <<>>
       THEN [r EXCEPT !.state = PutAt(@, <<"current_phase">>, S("matched")),
                      !.event = Dict(EmptyMap)]
       ELSE r

\* 'if not conditions: return True' is the empty sequence here
_check_conditions(conditions, event_data, project_state) ==
    CheckGroupsFrom(conditions, 1, event_data, project_state)

AllValuesIn(f, allowed) == \A k \in DOMAIN f : f[k] \in allowed

_evaluate_condition_empty_true(action_config, project_state) ==
    IF "condition_type" \in DOMAIN action_config
       /\ action_config["condition_type"] = S("all_modules_completed")
    THEN LET module_statuses ==
                 IF "code_modules_status" \in DOMAIN project_state.v
                 THEN project_state.v["code_modules_status"] ELSE Dict(EmptyMap)
         IN IF ~IsDict(module_statuses) /\ Truthy(module_statuses)
            THEN [exc |-> TRUE, ret |-> FALSE]
            ELSE [exc |-> FALSE,
                  ret |-> ~Truthy(module_statuses)
                          \/ AllValuesIn(module_statuses.v, {S("completed")})]
    ELSE [exc |-> FALSE, ret |-> FALSE]

\* exc: .values() on a value that is neither empty nor a map (AttributeError)
_evaluate_condition(action_config, project_state) ==
    IF "condition_type" \in DOMAIN action_config
       /\ action_config["condition_type"] = S("all_modules_completed")
    THEN LET module_statuses ==
                 IF "code_modules_status" \in DOMAIN project_state.v
                 THEN project_state.v["code_modules_status"] ELSE Dict(EmptyMap)
         IN IF ~Truthy(module_statuses) THEN [exc |-> FALSE, ret |-> FALSE]
            ELSE IF ~IsDict(module_statuses) THEN [exc |-> TRUE, ret |-> FALSE]
            ELSE [exc |-> FALSE,
                  ret |-> AllValuesIn(module_statuses.v, {S("completed")})]
    ELSE [exc |-> FALSE, ret |-> FALSE]

ActionStepNoBreak(action, project_state) ==
    IF "type" \notin DOMAIN action THEN "raise"
    ELSE IF action["type"] = S("check_condition")
    THEN LET c == _evaluate_condition(action, project_state)
         IN IF c.exc \/ "condition_type" \notin DOMAIN action THEN "raise"
            ELSE "continue"
    ELSE "append"

\* the body of 'for action in config_actions': what happens to one action
\* ("raise": KeyError on action['type'] / action['condition_type'], or the
\* error of _evaluate_condition)
ActionStep(action, project_state) ==
    IF "type" \notin DOMAIN action THEN "raise"
    ELSE IF action["type"] = S("check_condition")
    THEN LET c == _evaluate_condition(action, project_state)
         IN IF c.exc \/ "condition_type" \notin DOMAIN action THEN "raise"
            ELSE IF ~c.ret THEN "break" ELSE "continue"
    ELSE "append"

\* the shared state with an update_state action written into it
Written(action, project_state) ==
    LET path == action["path"].v
    IN IF Len(path) = 1 THEN PutAt(project_state, path, action["value"])
       ELSE IF /\ Len(path) = 2
               /\ path[1] \in DOMAIN project_state.v
               /\ IsDict(project_state.v[path[1]])
       THEN PutAt(project_state, path, action["value"])
       ELSE project_state

RECURSIVE ActionsFromApplying(_, _, _, _)
ActionsFromApplying(config_actions, k, actions_to_execute, project_state) ==
    IF k > Len(config_actions) THEN [exc |-> FALSE, actions |-> actions_to_execute]
    ELSE LET step == ActionStep(config_actions[k], project_state)
         IN CASE step = "raise" -> [exc |-> TRUE, actions |-> <<>>]
              [] step = "break" -> [exc |-> FALSE, actions |-> actions_to_execute]
              [] step = "continue" ->
                   ActionsFromApplying(config_actions, k + 1, actions_to_execute,
                                       project_state)
              [] OTHER ->
                   ActionsFromApplying(config_actions, k + 1,
                       Append(actions_to_execute, config_actions[k]),
                       IF config_actions[k]["type"] = S("update_state")
                       THEN Written(config_actions[k], project_state)
                       ELSE project_state)

RECURSIVE ActionsFrom(_, _, _, _)
ActionsFrom(config_actions, k, actions_to_execute, project_state) ==
    IF k > Len(config_actions) THEN [exc |-> FALSE, actions |-> actions_to_execute]
    ELSE LET step == ActionStep(config_actions[k], project_state)
         IN CASE step = "raise" -> [exc |-> TRUE, actions |-> <<>>]
              [] step = "break" -> [exc |-> FALSE, actions |-> actions_to_execute]
              [] step = "continue" ->
                   ActionsFrom(config_actions, k + 1, actions_to_execute, project_state)
              [] OTHER ->
                   ActionsFrom(config_actions, k + 1,
                               Append(actions_to_execute, config_actions[k]), project_state)

\* 'for handler in event_handlers' from handler h on
RECURSIVE HandlersFrom(_, _, _, _)
HandlersFrom(event_handlers, h, event_data, project_state) ==
    IF h > Len(event_handlers)
    THEN [exc |-> FALSE, actions |-> <<>>, event |-> event_data, state |-> project_state]
    ELSE LET c == _check_conditions(event_handlers[h].conditions, event_data, project_state)
         IN IF c.ok
            THEN LET a == ActionsFrom(event_handlers[h].actions, 1, <<>>, c.state)
                 IN [exc |-> a.exc, actions |-> a.actions, event |-> c.event, state |-> c.state]
            ELSE HandlersFrom(event_handlers, h + 1, c.event, c.state)

EventHandlers(workflow_config, event_type) ==
    IF event_type \in DOMAIN workflow_config THEN workflow_config[event_type] ELSE <<>>

process_event_from_second(workflow_config, event_type, event_data, project_state) ==
    HandlersFrom(EventHandlers(workflow_config, event_type), 2, event_data, project_state)

\* the returned actions stand for the executable copies, which differ from
\* the configured ones by the attached _event_data / _project_state only
process_event(workflow_config, event_type, event_data, project_state) ==
    HandlersFrom(EventHandlers(workflow_config, event_type), 1, event_data, project_state)

\* ------------------------------------------------------ template resolution
\* The reference atoms of the text universe, as the two regular expressions
\* of _substitute_template split them into (source, key_path)
RefTable ==
    { [tok |-> "{{event.user_idea}}", source |-> "event", key_path |-> <<"user_idea">>],
      [tok |-> "{{event.content.missing}}", source |-> "event", key_path |-> <<"content", "missing">>],
      [tok |-> "{{result.content.status}}", source |-> "result", key_path |-> <<"content", "status">>],
      [tok |-> "{{event.context_id}}", source |-> "event", key_path |-> <<"context_id">>],
      [tok |-> "{{event.context_id.part}}", source |-> "event", key_path |-> <<"context_id", "part">>],
      [tok |-> "{{event.content.note}}", source |-> "event", key_path |-> <<"content", "note">>],
      [tok |-> "{{state.status}}", source |-> "state", key_path |-> <<"status">>],
      [tok |-> "{{state.app_idea}}", source |-> "state", key_path |-> <<"app_idea">>],
      [tok |-> "{{state.missing}}", source |-> "state", key_path |-> <<"missing">>],
      [tok |-> "{{project_state.deployment_retries}}", source |-> "project_state",
       key_path |-> <<"deployment_retries">>],
      [tok |-> "{{project_state.module_test_retries.c9}}", source |-> "project_state",
       key_path |-> <<"module_test_retries", "c9">>],
      [tok |-> "{{state.deployment_retries.real}}", source |-> "state",
       key_path |-> <<"deployment_retries", "real">>],
      [tok |-> "{{state.status.name}}", source |-> "state", key_path |-> <<"status", "name">>] }

RefOf(tok) == CHOOSE r \in RefTable : r.tok = tok
IsEventRef(tok) == \E r \in RefTable : r.tok = tok /\ r.source \in {"event", "result"}
IsStateRef(tok) == \E r \in RefTable : r.tok = tok /\ r.source \in {"state", "project_state"}

RECURSIVE KeySeq(_)
KeySeq(keys) ==
    IF keys = {} THEN <<>>
    ELSE LET k == CHOOSE x \in keys : TRUE IN <<k>> \o KeySeq(keys \ {k})

\* repr(value) as text atoms (the items of a map in one fixed order)
RECURSIVE Repr(_)
RECURSIVE ReprItems(_, _)
RECURSIVE ReprElems(_)
ReprItems(f, keys) ==
    IF keys = <<>> THEN <<>>
    ELSE <<"'", Head(keys), "': ">> \o Repr(f[Head(keys)])
         \o (IF Len(keys) > 1 THEN <<", ">> ELSE <<>>) \o ReprItems(f, Tail(keys))
ReprElems(s) ==
    IF s = <<>> THEN <<>>
    ELSE Repr(Head(s)) \o (IF Len(s) > 1 THEN <<", ">> ELSE <<>>) \o ReprElems(Tail(s))
Repr(x) ==
    CASE x.t = "none" -> <<"None">>
      [] x.t = "int" -> <<ToString(x.v)>>
      [] x.t = "str" -> <<"'">> \o x.v \o <<"'">>
      [] x.t = "list" -> <<"[">> \o ReprElems(x.v) \o <<"]">>
      [] x.t = "dict" -> <<"{">> \o ReprItems(x.v, KeySeq(DOMAIN x.v)) \o <<"}">>
      [] OTHER -> <<"defaultdict(<class 'int'>, {">>
                  \o ReprItems(x.v, KeySeq(DOMAIN x.v)) \o <<"})">>

\* str(value)
StrOf(x) == IF x.t = "str" THEN x.v ELSE Repr(x)

\* output.replace(tok, text): every occurrence of the atom
RECURSIVE ReplaceAll(_, _, _)
ReplaceAll(output, tok, text) ==
    IF output = <<>> THEN <<>>
    ELSE (IF Head(output) = tok THEN text ELSE <<Head(output)>>)
         \o ReplaceAll(Tail(output), tok, text)

\* one of the two 'for match in re.findall(...)' loops, from match i on;
\* the matches were found before the loop started
RECURSIVE ReplaceMatches(_, _, _, _)
ReplaceMatches(output, matches, i, source_data) ==
    IF i > Len(matches) THEN [out |-> output, data |-> source_data]
    ELSE LET w == GetWalk(source_data, RefOf(matches[i]).key_path)
             text == IF w.exc THEN <<"ERROR_SUBSTITUTING">>
                     ELSE IF w.val = None THEN <<"N/A">>
                     ELSE StrOf(w.val)
         IN ReplaceMatches(ReplaceAll(output, matches[i], text), matches, i + 1, w.data)

\* the isinstance(template, str) branch
SubstituteString(template, event_data, project_state) ==
    LET e == ReplaceMatches(template, SelectSeq(template, IsEventRef), 1, event_data)
        p == ReplaceMatches(e.out, SelectSeq(e.out, IsStateRef), 1, project_state)
    IN [out |-> p.out, event |-> e.data, state |-> p.data]

RECURSIVE _substitute_template(_, _, _)
_substitute_template(template, event_data, project_state) ==
    CASE template.t = "str" ->
           Str(SubstituteString(template.v, event_data, project_state).out)
      [] IsDict(template) ->
           Dict([k \in DOMAIN template.v |->
                   _substitute_template(template.v[k], event_data, project_state)])
      [] template.t = "list" ->
           List([i \in 1..Len(template.v) |->
                   _substitute_template(template.v[i], event_data, project_state)])
      [] OTHER -> template

\* ------------------------------------------------------ GrandOrchestrator
\* self.agents, in registration order
Agents ==
    <<"Dream Weaver", "Master Builder", "Aesthetic Artist", "Code Sage",
      "Quality Guardian", "Deployment Master">>
AgentNames == {Agents[i] : i \in 1..Len(Agents)}
OrchestratorName == "Orchestrator"

\* dict.get(key) / dict.get(key, default) on an action or a map value
GetOr(f, key, default) == IF key \in DOMAIN f THEN f[key] ELSE default
Get(f, key) == GetOr(f, key, None)

RECURSIVE Joined(_)
Joined(toks) == IF toks = <<>> THEN "" ELSE Head(toks) \o Joined(Tail(toks))

\* the key a context id is as a dict key (a dict or a list is unhashable)
Hashable(x) == x.t \in {"str", "int", "none"}
ContextKey(x) == IF x.t = "str" THEN Joined(x.v) ELSE Head(Repr(x))

\* x[:8] works on text and lists only
Sliceable(x) == x.t \in {"str", "list"}

\* The objects an event handler of the orchestrator works on:
\*   project_state, inbox (per agent), human_inbox, uuids (ids minted so
\*   far), raised (an error is propagating), received (every message a
\*   mailbox was handed, in order)
Raise(o) == [o EXCEPT !.raised = TRUE]
\* a statement that fails unless ok holds, after o was reached
RaiseUnless(ok, o) == IF ok THEN o ELSE Raise(o)

\* str(uuid.uuid4())
Uuid(o) == S("u" \o ToString(o.uuids + 1))

receive_message_at_front(o, agent, message) ==
    [o EXCEPT !.inbox[agent] = <<message>> \o @,
              !.received[agent] = Append(@, message)]

\* AIAgent.receive_message
receive_message(o, agent, message) ==
    [o EXCEPT !.inbox[agent] = Append(@, message),
              !.received[agent] = Append(@, message)]

AwaitingResponse == {S("QUESTION"), S("CRITICAL_ISSUE"), S("INSTRUCTION")}

send_to_human_any_kind(o, message_type, content, options, context_id) ==
    LET human_message == [type |-> message_type, content |-> content,
                          options |-> IF Truthy(options) THEN options ELSE List(<<>>),
                          context_id |-> context_id]
        o2 == [o EXCEPT !.human_inbox = Append(@, human_message),
                        !.project_state =
                            PutAt(@, <<"pending_human_approval_context">>, context_id)]
    IN IF Truthy(context_id) /\ ~Sliceable(context_id) THEN Raise(o2) ELSE o2

send_to_human(o, message_type, content, options, context_id) ==
    LET human_message == [type |-> message_type, content |-> content,
                          options |-> IF Truthy(options) THEN options ELSE List(<<>>),
                          context_id |-> context_id]
        o1 == [o EXCEPT !.human_inbox = Append(@, human_message)]
        o2 == IF message_type \in AwaitingResponse
              THEN [o1 EXCEPT !.project_state =
                        PutAt(@, <<"pending_human_approval_context">>, context_id)]
              ELSE o1
    IN IF Truthy(context_id) /\ ~Sliceable(context_id) THEN Raise(o2) ELSE o2

\* the walk over keys[:-1]: the map the last key is written into, if reached
RECURSIVE ParentReached(_, _)
ParentReached(d, keys) ==
    IF Len(keys) <= 1 THEN IsDict(d)
    ELSE IsDict(d) /\ Head(keys) \in DOMAIN d.v /\ ParentReached(d.v[Head(keys)], Tail(keys))

_update_project_state_strict(o, path, value) ==
    IF path.t # "str" THEN Raise(o)
    ELSE IF ParentReached(o.project_state, path.v)
    THEN [o EXCEPT !.project_state = PutAt(@, path.v, value)]
    ELSE Raise(o)

_update_project_state(o, path, value) ==
    IF path.t # "str" THEN Raise(o)
    ELSE IF ParentReached(o.project_state, path.v)
    THEN [o EXCEPT !.project_state = PutAt(@, path.v, value)]
    ELSE o

_delegate_task_untracked(o, agent_name, task_name, content, context_id) ==
    IF ~(agent_name.t = "str" /\ Joined(agent_name.v) \in AgentNames) THEN o
    ELSE LET minted == ~Truthy(context_id)
             cid == IF minted THEN Uuid(o) ELSE context_id
             o1 == IF minted THEN [o EXCEPT !.uuids = @ + 1] ELSE o
         IN IF ~IsDict(content) THEN Raise(o1)
            ELSE RaiseUnless(Sliceable(cid),
                     receive_message(o1, Joined(agent_name.v),
                         [sender |-> OrchestratorName, type |-> "task",
                          content |-> [content EXCEPT !.v = Put(@, "task_name", task_name)],
                          context_id |-> cid]))

_delegate_task(o, agent_name, task_name, content, context_id) ==
    IF ~(agent_name.t = "str" /\ Joined(agent_name.v) \in AgentNames)
    THEN send_to_human(o, S("ERROR"),
                       Str(<<"Orchestrator failed to delegate task '">> \o StrOf(task_name)
                           \o <<"': Agent '">> \o StrOf(agent_name) \o <<"' not found.">>),
                       None, context_id)
    ELSE LET agent == Joined(agent_name.v)
             minted == ~Truthy(context_id)
             cid == IF minted THEN Uuid(o) ELSE context_id
             o1 == IF minted THEN [o EXCEPT !.uuids = @ + 1] ELSE o
             ledger == o1.project_state.v["current_task_contexts"]
             entry == Dict([task_name |-> task_name, agent |-> agent_name,
                            original_content |-> content])
         IN IF ~IsDict(ledger) \/ ~Hashable(cid) THEN Raise(o1)
            ELSE LET o2 == [o1 EXCEPT !.project_state =
                                PutAt(@, <<"current_task_contexts", ContextKey(cid)>>, entry)]
                 IN IF ~IsDict(content) THEN Raise(o2)
                    ELSE RaiseUnless(Sliceable(cid),
                             receive_message(o2, agent,
                                 [sender |-> OrchestratorName, type |-> "task",
                                  content |-> [content EXCEPT
                                                 !.v = Put(@, "task_name", task_name)],
                                  context_id |-> cid]))

ExecuteUpdateState(o, action, event_data) ==
    LET path == Get(action, "path")
        value_template == Get(action, "value")
    IN IF path # None /\ value_template # None
       THEN _update_project_state(o, path,
                _substitute_template(value_template, event_data, o.project_state))
       ELSE o

\* context_id = self._substitute_template(context_id_template, ...) if
\* context_id_template else None
ResolvedContext(context_id_template, event_data, pstate) ==
    IF Truthy(context_id_template)
    THEN _substitute_template(context_id_template, event_data, pstate)
    ELSE None

\* if not context_id and event_data.get('context_id'): take the event's
EventContextOr(resolved, event_data) ==
    IF ~Truthy(resolved) /\ Truthy(Get(event_data.v, "context_id"))
    THEN event_data.v["context_id"] ELSE resolved

\* if not context_id: context_id = str(uuid.uuid4()); then send_to_human
SendInContext(o, message_type, content, options, context_id) ==
    IF Truthy(context_id)
    THEN send_to_human(o, message_type, content, options, context_id)
    ELSE send_to_human([o EXCEPT !.uuids = @ + 1], message_type, content, options, Uuid(o))

ExecuteSendHumanMessage(o, action, event_data) ==
    IF Truthy(Get(action, "message_type")) /\ Get(action, "content") # None
    THEN SendInContext(o, Get(action, "message_type"),
             _substitute_template(Get(action, "content"), event_data, o.project_state),
             _substitute_template(GetOr(action, "options", List(<<>>)), event_data,
                                  o.project_state),
             EventContextOr(ResolvedContext(Get(action, "context_id"), event_data,
                                            o.project_state),
                            event_data))
    ELSE o

Retryable == {S("Quality Guardian"), S("Deployment Master")}

DelegatedContextTemplateFirst(action, resolved, event_data) ==
    IF Truthy(resolved) THEN resolved
    ELSE IF Truthy(GetOr(action, "use_event_context_id", IntV(0)))
            /\ Truthy(Get(event_data.v, "context_id"))
    THEN event_data.v["context_id"] ELSE resolved

\* if action.get('use_event_context_id') and event_data.get('context_id'):
\* the event's context id, else the resolved one
DelegatedContext(action, resolved, event_data) ==
    IF Truthy(GetOr(action, "use_event_context_id", IntV(0)))
       /\ Truthy(Get(event_data.v, "context_id"))
    THEN event_data.v["context_id"] ELSE resolved

StampGlobalAndDelegate(o1, agent_name, task_name, content, delegated_context_id) ==
    IF agent_name \in Retryable
    THEN IF ~IsDict(content) THEN Raise(o1)
         ELSE _delegate_task(o1, agent_name, task_name,
                  [content EXCEPT !.v = Put(@, "retry_attempt",
                                            o1.project_state.v["deployment_retries"])],
                  delegated_context_id)
    ELSE _delegate_task(o1, agent_name, task_name, content, delegated_context_id)

StampCountAndDelegate(o1, agent_name, task_name, content, delegated_context_id) ==
    IF agent_name = S("Deployment Master") /\ IsDict(content)
    THEN _delegate_task([o1 EXCEPT !.project_state =
                             PutAt(@, <<"deployment_retries">>,
                                   IntV(o1.project_state.v["deployment_retries"].v + 1))],
                        agent_name, task_name,
                        [content EXCEPT !.v = Put(@, "retry_attempt",
                                                  o1.project_state.v["deployment_retries"])],
                        delegated_context_id)
    ELSE _delegate_task(o1, agent_name, task_name, content, delegated_context_id)

\* the retry stamp on the payload of a task for a retryable agent, then
\* _delegate_task
StampAndDelegate(o1, agent_name, task_name, content, delegated_context_id) ==
    IF agent_name \in Retryable
    THEN LET counters == o1.project_state.v["module_test_retries"]
             key == ContextKey(delegated_context_id)
             per_context == agent_name = S("Quality Guardian")
             \* module_test_retries[delegated_context_id]
             readable == /\ IsDict(counters)
                         /\ Hashable(delegated_context_id)
                         /\ (key \in DOMAIN counters.v \/ counters.t = "defaultdict")
             o2 == IF per_context /\ readable /\ key \notin DOMAIN counters.v
                   THEN [o1 EXCEPT !.project_state =
                             PutAt(@, <<"module_test_retries", key>>, IntV(0))]
                   ELSE o1
             current_retries ==
                 IF per_context
                 THEN o2.project_state.v["module_test_retries"].v[key]
                 ELSE o1.project_state.v["deployment_retries"]
         IN IF per_context /\ ~readable THEN Raise(o1)
            ELSE IF ~IsDict(content) THEN Raise(o2)
            ELSE _delegate_task(o2, agent_name, task_name,
                     [content EXCEPT !.v = Put(@, "retry_attempt", current_retries)],
                     delegated_context_id)
    ELSE _delegate_task(o1, agent_name, task_name, content, delegated_context_id)

\* if not delegated_context_id: delegated_context_id = str(uuid.uuid4())
DelegateInContext(o, agent_name, task_name, content, context_id) ==
    IF Truthy(context_id)
    THEN StampAndDelegate(o, agent_name, task_name, content, context_id)
    ELSE StampAndDelegate([o EXCEPT !.uuids = @ + 1], agent_name, task_name, content, Uuid(o))

ExecuteDelegateTask(o, action, event_data) ==
    IF Truthy(Get(action, "agent")) /\ Truthy(Get(action, "task"))
    THEN DelegateInContext(o, Get(action, "agent"), Get(action, "task"),
             _substitute_template(GetOr(action, "content", Dict(EmptyMap)), event_data,
                                  o.project_state),
             DelegatedContext(action,
                              ResolvedContext(Get(action, "context_id"), event_data,
                                              o.project_state),
                              event_data))
    ELSE o

\* the body of 'for action in actions' of _execute_actions
ExecuteAction(o, action, event_data) ==
    LET action_type == Get(action, "type")
    IN CASE action_type = S("update_state") -> ExecuteUpdateState(o, action, event_data)
         [] action_type = S("send_human_message") ->
              ExecuteSendHumanMessage(o, action, event_data)
         [] action_type = S("delegate_task") -> ExecuteDelegateTask(o, action, event_data)
         [] OTHER -> o

ExecuteFirstOnly(o, actions, k, event_data) ==
    IF k > Len(actions) \/ o.raised THEN o
    ELSE ExecuteAction(o, actions[k], event_data)

RECURSIVE ExecuteFrom(_, _, _, _)
ExecuteFrom(o, actions, k, event_data) ==
    IF k > Len(actions) \/ o.raised THEN o
    ELSE ExecuteFrom(ExecuteAction(o, actions[k], event_data), actions, k + 1, event_data)

_execute_actions(o, actions, event_data) == ExecuteFrom(o, actions, 1, event_data)

\* actions = process_event(...); _execute_actions(actions, event_data):
\* how start_app_development, _process_orchestrator_message and
\* get_human_input hand an event to the engine
ExecuteReturned(o, r) ==
    IF r.exc THEN Raise([o EXCEPT !.project_state = r.state])
    ELSE _execute_actions([o EXCEPT !.project_state = r.state], r.actions, r.event)

SubmitEvent(o, workflow_config, event_type, event_data) ==
    ExecuteReturned(o, process_event(workflow_config, event_type, event_data, o.project_state))

start_app_development(o, workflow_config, user_idea) ==
    SubmitEvent([o EXCEPT !.project_state = PutAt(@, <<"app_idea">>, user_idea)],
                workflow_config, "start", Dict([user_idea |-> user_idea]))

get_human_input_clearing(o, workflow_config, response, context_id) ==
    LET pending == o.project_state.v["pending_human_approval_context"]
        final_context_id == IF context_id # None THEN context_id ELSE pending
        o1 == [o EXCEPT !.project_state =
                  PutAt(@, <<"pending_human_approval_context">>, None)]
    IN IF Truthy(final_context_id) /\ ~Sliceable(final_context_id) THEN Raise(o)
       ELSE SubmitEvent(o1, workflow_config, "human_input",
                        Dict([response |-> response, context_id |-> final_context_id]))

get_human_input(o, workflow_config, response, context_id) ==
    LET pending == o.project_state.v["pending_human_approval_context"]
        final_context_id == IF context_id # None THEN context_id ELSE pending
        o1 == IF PyEq(pending, final_context_id)
              THEN [o EXCEPT !.project_state =
                        PutAt(@, <<"pending_human_approval_context">>, None)]
              ELSE o
    IN IF Truthy(final_context_id) /\ ~Sliceable(final_context_id) THEN Raise(o)
       ELSE SubmitEvent(o1, workflow_config, "human_input",
                        Dict([response |-> response, context_id |-> final_context_id]))

_process_orchestrator_message(o, workflow_config, message) ==
    IF message.type \in {"result", "status_update"}
    THEN SubmitEvent(o, workflow_config, "agent_result",
                     Dict([sender |-> S(message.sender), type |-> S(message.type),
                           content |-> message.content, context_id |-> message.context_id]))
    ELSE o

RouteOneToSender(o, workflow_config, message) ==
    IF message.recipient = OrchestratorName
    THEN IF ~Sliceable(message.context_id) THEN Raise(o)
         ELSE _process_orchestrator_message(o, workflow_config, message)
    ELSE IF message.recipient \in AgentNames
    THEN receive_message(o, message.recipient, message)
    ELSE receive_message(o, message.sender, message)

\* the body of the while loop of _process_internal_messages for one message
RouteOne(o, workflow_config, message) ==
    IF message.recipient = OrchestratorName
    THEN IF ~Sliceable(message.context_id) THEN Raise(o)
         ELSE _process_orchestrator_message(o, workflow_config, message)
    ELSE IF message.recipient \in AgentNames
    THEN receive_message(o, message.recipient, message)
    ELSE o

\* ------------------------------------------------------------------ AIAgent
\* AIAgent.send_message: the message handed to route_internal_message
send_message(sender, recipient_name, message_type, content, context_id) ==
    [sender |-> sender, recipient |-> recipient_name, type |-> message_type,
     content |-> content, context_id |-> context_id]

\* what process_task did: returned a result map with this status, or raised
Outcomes == {"completed", "failed", "raise"}

ActivationWithoutCatch(message, agent, outcome) ==
    IF message.type = "feedback"
    THEN [raised |-> ~IsDict(message.content) \/ ~Sliceable(message.context_id), sent |-> <<>>]
    ELSE IF message.type # "task" THEN [raised |-> FALSE, sent |-> <<>>]
    ELSE IF ~IsDict(message.content) \/ ~Sliceable(message.context_id)
    THEN [raised |-> TRUE, sent |-> <<>>]
    ELSE LET task_name == GetOr(message.content.v, "task_name", S("Unnamed Task"))
         IN IF outcome = "raise"
            THEN [raised |-> TRUE, sent |-> <<>>]
            ELSE [raised |-> FALSE,
                  sent |-> <<send_message(agent, OrchestratorName, "result",
                                 Dict([status |-> S(outcome), task_name |-> task_name]),
                                 message.context_id)>>]

\* process_pending_tasks after the popleft: the messages it sends and whether
\* an error leaves it (.get on a payload that is no map, or context_id[:8] on
\* a context id that is no text, both outside the try)
Activation(message, agent, outcome) ==
    IF message.type = "feedback"
    THEN [raised |-> ~IsDict(message.content) \/ ~Sliceable(message.context_id), sent |-> <<>>]
    ELSE IF message.type # "task" THEN [raised |-> FALSE, sent |-> <<>>]
    ELSE IF ~IsDict(message.content) \/ ~Sliceable(message.context_id)
    THEN [raised |-> TRUE, sent |-> <<>>]
    ELSE LET task_name == GetOr(message.content.v, "task_name", S("Unnamed Task"))
         IN IF outcome = "raise"
            THEN [raised |-> FALSE,
                  sent |-> <<send_message(agent, OrchestratorName, "status_update",
                                 Dict([task_name |-> task_name, status |-> S("failed"),
                                       message |-> S("Task failed due to exception")]),
                                 message.context_id)>>]
            ELSE [raised |-> FALSE,
                  sent |-> <<send_message(agent, OrchestratorName, "result",
                                 Dict([status |-> S(outcome), task_name |-> task_name]),
                                 message.context_id)>>]

\* ----------------------------------------------------------------- state
VARIABLES
    config,                  \* workflow_engine.workflow_config['events']
    project_state,           \* GrandOrchestrator.project_state
    inbox,                   \* AIAgent.inbox of every agent
    internal_message_queue,
    human_inbox,             \* messages for the human
    human_outbox,            \* responses of the human, not yet fed to the engine
    uuids,                   \* number of ids minted by uuid.uuid4()
    pc,                      \* "idle", a stage of run_simulation_cycle, or "crashed"
    count,                   \* the loop counter of the stage (the agent index in "agents")
    cycles,                  \* calls of run_simulation_cycle so far
    injected,                \* messages handed in from outside so far
    started,                 \* start_app_development was called
    received,                \* per agent, every message receive_message was given
    activated,               \* per agent, every message process_pending_tasks popped
    trace,                   \* what the current (or last) cycle did, step by step
    e_config,    \* the handler list of the engine under test
    e_type,      \* event_type handed to process_event
    e_event,     \* the event_data object
    e_state,     \* the project_state object
    e_pre,       \* event_data and project_state as they were before the last call
    e_out        \* the last call on the engine and what it returned

engine_vars == <<e_config, e_type, e_event, e_state, e_pre, e_out>>
orch_vars == <<config, project_state, inbox, internal_message_queue, human_inbox,
               human_outbox, uuids, pc, count, cycles, injected, started,
               received, activated, trace>>
vars == <<orch_vars, engine_vars>>

\* GrandOrchestrator.__init__: self.project_state
InitProjectState ==
    Dict([status |-> S("Idle"),
          current_phase |-> S("Initiation"),
          pending_human_approval_context |-> None,
          app_idea |-> None,
          concept_brief |-> None,
          technical_blueprint |-> None,
          tech_stack_proposal |-> None,
          ui_ux_prototype_url |-> None,
          design_guidelines |-> None,
          code_modules_status |-> Dict(EmptyMap),
          test_results |-> Dict(EmptyMap),
          module_test_retries |-> DefaultDict(EmptyMap),
          deployment_retries |-> IntV(0),
          final_app_url |-> None,
          selected_deployment_target |-> None,
          current_task_contexts |-> Dict(EmptyMap),
          escalated_issues |-> Dict(EmptyMap)])

NoMessage ==
    [sender |-> "", recipient |-> "", type |-> "none", content |-> None, context_id |-> None]

\* GrandOrchestrator.__init__ and AIAgent.__init__, but for the rule table
Constructed ==
    /\ project_state = InitProjectState
    /\ inbox = [a \in AgentNames |-> <<>>]
    /\ internal_message_queue = <<>>
    /\ human_inbox = <<>>
    /\ human_outbox = <<>>
    /\ uuids = 0
    /\ pc = "idle"
    /\ count = 0
    /\ cycles = 0
    /\ injected = 0
    /\ started = FALSE
    /\ received = [a \in AgentNames |-> <<>>]
    /\ activated = [a \in AgentNames |-> <<>>]
    /\ trace = <<>>

\* ------------------------------------------- inputs of the engine under test
Pair(key, expected) == [key |-> key, expected |-> expected]
Group(name, pairs) == [name |-> name, isdict |-> TRUE, pairs |-> pairs]
NotAMap(name) == [name |-> name, isdict |-> FALSE, pairs |-> <<>>]

CondFailed == Group("event_data", <<Pair(<<"content", "status">>, S("failed"))>>)
CondQa == Group("project_state", <<Pair(<<"current_phase">>, S("qa"))>>)

ConditionsPool ==
    { <<>>,
      <<CondFailed>>,
      <<CondFailed, CondQa>>,
      <<CondQa, CondFailed>>,
      <<Group("event_data", <<Pair(<<"content", "status">>, S("failed")),
                              Pair(<<"content", "task_name">>, S("run_tests"))>>)>>,
      <<Group("has_escalated_issue", <<>>)>>,
      <<CondFailed, Group("has_escalated_issue", <<>>)>>,
      <<NotAMap("project_state")>>,
      <<NotAMap("event_data"), CondQa>>,
      <<Group("project_state", <<Pair(<<"module_test_retries", "c1">>, IntV(0))>>)>>,
      <<Group("project_state", <<Pair(<<"module_test_retries", "c1">>, IntV(1))>>)>>,
      <<Group("event_data", <<Pair(<<"content", "missing">>, None)>>)>>,
      <<Group("project_state", <<Pair(<<"missing">>, IntV(0))>>)>>,
      <<Group("project_state", <<Pair(<<"app_idea">>, None)>>)>>,
      <<Group("project_state", <<Pair(<<"status", "name">>, S("Idle"))>>)>>,
      <<Group("event_data", <<Pair(<<"context_id">>, S("c1"))>>)>> }

UpdateState(path, value) ==
    [type |-> S("update_state"), path |-> Str(path), value |-> value]
CheckCondition(name) ==
    [type |-> S("check_condition"), condition_type |-> S(name)]
SendHumanMessage(message_type, content) ==
    [type |-> S("send_human_message"), message_type |-> S(message_type),
     content |-> content]
DelegateTask(agent, task, content, use_event_context_id) ==
    [type |-> S("delegate_task"), agent |-> S(agent), task |-> S(task),
     content |-> content, use_event_context_id |-> IntV(use_event_context_id)]

CheckActionPool ==
    { CheckCondition("all_modules_completed"),
      CheckCondition("has_escalated_issue"),
      [type |-> S("check_condition")] }

Handler(conditions, actions) == [conditions |-> conditions, actions |-> actions]

\* handlers with pairwise different actions
HandlerPool ==
    { Handler(<<>>, <<UpdateState(<<"status">>, S("H1"))>>),
      Handler(<<CondFailed>>,
              <<UpdateState(<<"status">>, S("H2")),
                CheckCondition("all_modules_completed"),
                DelegateTask("Deployment Master", "deploy", Dict(EmptyMap), 1)>>),
      Handler(<<CondFailed, CondQa>>,
              <<CheckCondition("all_modules_completed"),
                SendHumanMessage("QUESTION", Str(<<"H3 ", "{{event.content.missing}}">>))>>),
      Handler(<<Group("project_state", <<Pair(<<"module_test_retries", "c1">>, IntV(0))>>)>>,
              <<UpdateState(<<"status">>, S("H4"))>>),
      Handler(<<>>,
              <<UpdateState(<<"status">>, S("H5")),
                CheckCondition("has_escalated_issue"),
                UpdateState(<<"current_phase">>, S("H5b"))>>),
      Handler(<<>>,
              <<CheckCondition("all_modules_completed"),
                UpdateState(<<"status">>, S("H6")),
                CheckCondition("all_modules_completed"),
                UpdateState(<<"current_phase">>, S("H6b"))>>),
      Handler(<<>>, <<UpdateState(<<"status">>, S("H7")), [path |-> Str(<<"status">>)]>>),
      Handler(<<Group("has_escalated_issue", <<>>)>>,
              <<UpdateState(<<"status">>, S("H8"))>>),
      Handler(<<CondQa>>, <<[type |-> S("check_condition")],
                            UpdateState(<<"status">>, S("H9"))>>),
      Handler(<<>>,
              <<UpdateState(<<"code_modules_status", "m2">>, S("completed")),
                CheckCondition("all_modules_completed"),
                UpdateState(<<"status">>, S("H10"))>>),
      Handler(<<CondFailed>>,
              <<UpdateState(<<"code_modules_status", "m1">>, S("coding")),
                CheckCondition("all_modules_completed"),
                UpdateState(<<"status">>, S("H11"))>>) }

\* the handlers that stand second in a table of two
SecondHandlers ==
    { Handler(<<>>, <<UpdateState(<<"status">>, S("H1"))>>),
      Handler(<<CondFailed>>,
              <<UpdateState(<<"status">>, S("H2")),
                CheckCondition("all_modules_completed"),
                DelegateTask("Deployment Master", "deploy", Dict(EmptyMap), 1)>>) }

EngineTables ==
    {<<>>} \cup {<<h>> : h \in HandlerPool}
           \cup {<<h1, h2>> : h1 \in HandlerPool, h2 \in SecondHandlers}

EngineEvents ==
    { [type |-> "start", data |-> Dict([user_idea |-> S("X")])],
      [type |-> "agent_result",
       data |-> Dict([sender |-> S("Quality Guardian"), type |-> S("status_update"),
                      content |-> Dict([task_name |-> S("run_tests"), status |-> S("failed")]),
                      context_id |-> S("c1")])],
      [type |-> "agent_result",
       data |-> Dict([sender |-> S("Code Sage"), type |-> S("result"),
                      content |-> Dict([task_name |-> S("write_code"), status |-> S("completed"),
                                        note |-> Str(<<"see ", "{{state.status}}",
                                                       "{{event.content.missing}}">>)]),
                      context_id |-> S("c2")])],
      [type |-> "human_input",
       data |-> Dict([response |-> S("Approve"), context_id |-> None])] }

ProjectStateWith(phase, modules, retries) ==
    [InitProjectState EXCEPT !.v = [@ EXCEPT !["current_phase"] = S(phase),
                                             !["code_modules_status"] = modules,
                                             !["module_test_retries"] = DefaultDict(retries)]]

EngineStates ==
    { InitProjectState,
      ProjectStateWith("qa", Dict([m1 |-> S("completed"), m2 |-> S("completed")]), EmptyMap),
      ProjectStateWith("qa", Dict([m1 |-> S("completed"), m2 |-> S("coding")]),
                       [c1 |-> IntV(1)]),
      ProjectStateWith("Initiation", Dict([m1 |-> S("completed")]), [c1 |-> IntV(1)]),
      ProjectStateWith("qa", Dict([m1 |-> S("escalated")]), EmptyMap),
      ProjectStateWith("qa", S("completed"), EmptyMap),
      ProjectStateWith("Initiation", Dict(EmptyMap), [c1 |-> IntV(0)]) }

TemplatePool ==
    { <<"{{event.content.missing}}">>,
      <<"Idea: ", "{{event.user_idea}}">>,
      <<"{{event.content.missing}}", " / ", "{{state.missing}}", "{{event.content.missing}}">>,
      <<"{{event.context_id}}">>,
      <<"{{event.context_id.part}}">>,
      <<"{{result.content.status}}", " in ", "{{state.status}}">>,
      <<"{{project_state.module_test_retries.c9}}">>,
      <<"{{event.content.missing}}", "{{event.content.note}}">>,
      <<"{{state.app_idea}}", "{{state.deployment_retries.real}}", "{{state.status.name}}">>,
      <<"{{config.modules}}", " plain">> }

NoCall ==
    [call |-> "none", template |-> <<>>, conditions |-> <<>>, action |-> EmptyMap,
     raised |-> FALSE, actions |-> <<>>, ok |-> FALSE, text |-> <<>>,
     repeat |-> FALSE, prev_text |-> <<>>]

InitEngine ==
    /\ config = [k \in {} |-> <<>>]
    /\ Constructed
    /\ e_config \in EngineTables
    /\ \E ev \in EngineEvents : e_type = ev.type /\ e_event = ev.data
    /\ e_state \in EngineStates
    /\ e_pre = [event |-> e_event, state |-> e_state]
    /\ e_out = NoCall

\* the rule table under test: e_config under both configured event kinds
EngineConfig == [k \in {"start", "agent_result"} |-> e_config]

CallProcessEvent ==
    LET r == process_event(EngineConfig, e_type, e_event, e_state)
    IN /\ e_pre' = [event |-> e_event, state |-> e_state]
       /\ e_event' = r.event
       /\ e_state' = r.state
       /\ e_out' = [NoCall EXCEPT !.call = "process_event", !.raised = r.exc,
                                  !.actions = r.actions]
       /\ UNCHANGED <<e_config, e_type, orch_vars>>

CallCheckConditions ==
    \E conditions \in ConditionsPool :
        LET r == _check_conditions(conditions, e_event, e_state)
        IN /\ e_pre' = [event |-> e_event, state |-> e_state]
           /\ e_event' = r.event
           /\ e_state' = r.state
           /\ e_out' = [NoCall EXCEPT !.call = "_check_conditions",
                                      !.conditions = conditions, !.ok = r.ok]
           /\ UNCHANGED <<e_config, e_type, orch_vars>>

CallEvaluateCondition ==
    \E action \in CheckActionPool :
        LET r == _evaluate_condition(action, e_state)
        IN /\ e_pre' = [event |-> e_event, state |-> e_state]
           /\ e_out' = [NoCall EXCEPT !.call = "_evaluate_condition", !.action = action,
                                      !.raised = r.exc, !.ok = r.ret]
           /\ UNCHANGED <<e_config, e_type, e_event, e_state, orch_vars>>

CallSubstituteTemplate ==
    \E template \in TemplatePool :
        LET r == SubstituteString(template, e_event, e_state)
        IN /\ e_pre' = [event |-> e_event, state |-> e_state]
           /\ e_event' = r.event
           /\ e_state' = r.state
           /\ e_out' = [NoCall EXCEPT !.call = "_substitute_template",
                                      !.template = template, !.text = r.out,
                                      !.repeat = (e_out.call = "_substitute_template"
                                                  /\ e_out.template = template),
                                      !.prev_text =
                                          IF e_out.call = "_substitute_template"
                                             /\ e_out.template = template
                                          THEN e_out.text ELSE <<>>]
           /\ UNCHANGED <<e_config, e_type, orch_vars>>

NextEngine ==
    \/ CallProcessEvent
    \/ CallCheckConditions
    \/ CallEvaluateCondition
    \/ CallSubstituteTemplate

SpecEngine == InitEngine /\ [][NextEngine]_vars

\* ------------------------------------------------- the orchestrator at work
MaxCycles == 2
MaxInjected == 2
HumanBatch == 5
InternalBatch == 10

\* a rule table in the shape of workflow_config.json
PipelineConfig ==
    [start |->
       << Handler(<<>>,
            << UpdateState(<<"status">>, S("Ideation")),
               DelegateTask("Dream Weaver", "define_concept",
                            Dict([user_idea |-> S("{{event.user_idea}}")]), 0) >>) >>,
     agent_result |->
       << Handler(<<Group("event_data",
                          <<Pair(<<"type">>, S("result")),
                            Pair(<<"content", "task_name">>, S("define_concept"))>>)>>,
            << UpdateState(<<"status">>, S("Awaiting Approval")),
               SendHumanMessage("QUESTION",
                                Str(<<"Approve? ", "{{event.content.status}}">>)) >>),
          Handler(<<Group("event_data", <<Pair(<<"content", "status">>, S("failed"))>>)>>,
            << UpdateState(<<"status">>, S("Testing")),
               UpdateState(<<"module_test_retries", "c1">>, IntV(1)),
               DelegateTask("Quality Guardian", "run_tests",
                            Dict([module_name |-> S("m1")]), 1) >>),
          Handler(<<Group("event_data", <<Pair(<<"content", "status">>, S("completed"))>>)>>,
            << UpdateState(<<"code_modules_status", "m1">>, S("completed")),
               CheckCondition("all_modules_completed"),
               DelegateTask("Deployment Master", "deploy", Dict(EmptyMap), 1) >>) >>,
     human_input |->
       << Handler(<<Group("event_data", <<Pair(<<"response">>, S("Approve"))>>)>>,
            << UpdateState(<<"status">>, S("Approved")),
               DelegateTask("Code Sage", "write_code",
                            Dict([module_name |-> S("m1")]), 1) >>),
          Handler(<<>>,
            << UpdateState(<<"status">>, S("Project Cancelled")),
               DelegateTask("Nobody", "archive", Dict(EmptyMap), 1) >>) >>]

\* _load_config on a missing or malformed document: {'events': {}}
EmptyConfig == [k \in {} |-> <<>>]

Configs == {PipelineConfig, EmptyConfig}

Task(agent, task_name, context_id) ==
    [sender |-> OrchestratorName, recipient |-> agent, type |-> "task",
     content |-> Dict([task_name |-> S(task_name)]), context_id |-> context_id]

\* messages handed to a mailbox from outside
MailPool ==
    { Task("Dream Weaver", "define_concept", S("c1")),
      Task("Dream Weaver", "refine_concept", S("c2")),
      [sender |-> "Quality Guardian", recipient |-> "Code Sage", type |-> "feedback",
       content |-> Dict([description |-> S("bug")]), context_id |-> S("c1")],
      Task("Quality Guardian", "run_tests", None) }

\* messages handed to route_internal_message from outside
RoutePool ==
    { [sender |-> "Code Sage", recipient |-> OrchestratorName, type |-> "result",
       content |-> Dict([status |-> S("completed"), task_name |-> S("write_code")]),
       context_id |-> S("c1")],
      [sender |-> "Code Sage", recipient |-> "Nobody", type |-> "result",
       content |-> Dict(EmptyMap), context_id |-> S("c1")] }

Ideas == {S("X")}
ResponsePool ==
    { [response |-> S("Approve"), context_id |-> S("c1")],
      [response |-> S("Cancel"), context_id |-> None] }

Init ==
    /\ config \in Configs
    /\ Constructed
    /\ e_config = <<>>
    /\ e_type = "none"
    /\ e_event = Dict(EmptyMap)
    /\ e_state = InitProjectState
    /\ e_pre = [event |-> e_event, state |-> e_state]
    /\ e_out = NoCall

\* the objects the orchestrator's handlers work on, and their write-back
Objects ==
    [project_state |-> project_state, inbox |-> inbox, human_inbox |-> human_inbox,
     uuids |-> uuids, raised |-> FALSE, received |-> received]

Store(o, next_pc) ==
    /\ pc' = IF o.raised THEN "crashed" ELSE next_pc
    /\ project_state' = o.project_state
    /\ inbox' = o.inbox
    /\ human_inbox' = o.human_inbox
    /\ uuids' = o.uuids
    /\ received' = o.received

Step(kind, agent, message, outcome, sent, raised) ==
    [kind |-> kind, agent |-> agent, message |-> message, outcome |-> outcome,
     sent |-> sent, raised |-> raised]

AfterHumanInternalFirst(outbox, processed) ==
    IF outbox # <<>> /\ processed < HumanBatch THEN "humans"
    ELSE IF internal_message_queue # <<>> THEN "internal" ELSE "agents"
\* where run_simulation_cycle goes next: the human drain while responses are
\* queued and fewer than HumanBatch were processed, then the agents
AfterHuman(outbox, processed) ==
    IF outbox # <<>> /\ processed < HumanBatch THEN "humans" ELSE "agents"
\* the internal drain while messages are queued and fewer than InternalBatch
\* were processed, then the end of the cycle
AfterInternal(queue, processed) ==
    IF queue # <<>> /\ processed < InternalBatch THEN "internal" ELSE "idle"

StartAppDevelopment ==
    /\ pc = "idle"
    /\ ~started
    /\ \E user_idea \in Ideas :
           Store(start_app_development(Objects, config, user_idea), "idle")
    /\ started' = TRUE
    /\ UNCHANGED <<config, internal_message_queue, human_outbox, count, cycles, injected,
                   activated, trace, engine_vars>>

\* a caller hands a message to AIAgent.receive_message
ReceiveMessage ==
    /\ pc = "idle"
    /\ injected < MaxInjected
    /\ \E message \in MailPool :
           Store(receive_message(Objects, message.recipient, message), "idle")
    /\ injected' = injected + 1
    /\ UNCHANGED <<config, internal_message_queue, human_outbox, count, cycles,
                   started, activated, trace, engine_vars>>

\* a caller hands a message to GrandOrchestrator.route_internal_message
RouteInternalMessage ==
    /\ pc = "idle"
    /\ injected < MaxInjected
    /\ \E message \in RoutePool :
           internal_message_queue' = Append(internal_message_queue, message)
    /\ injected' = injected + 1
    /\ UNCHANGED <<config, project_state, inbox, human_inbox, human_outbox, uuids, pc, count,
                   cycles, started, received, activated, trace, engine_vars>>

\* the human-facing surface puts (response, context_id) into human_outbox
QueueHumanResponse ==
    /\ pc = "idle"
    /\ injected < MaxInjected
    /\ \E item \in ResponsePool : human_outbox' = Append(human_outbox, item)
    /\ injected' = injected + 1
    /\ UNCHANGED <<config, project_state, inbox, internal_message_queue, human_inbox, uuids,
                   pc, count, cycles, started, received, activated, trace, engine_vars>>

\* run_simulation_cycle is entered
BeginCycle ==
    /\ pc = "idle"
    /\ cycles < MaxCycles
    /\ cycles' = cycles + 1
    /\ trace' = <<>>
    /\ pc' = AfterHuman(human_outbox, 0)
    /\ count' = IF human_outbox # <<>> THEN 0 ELSE 1
    /\ UNCHANGED <<config, project_state, inbox, internal_message_queue, human_inbox,
                   human_outbox, uuids, injected, started, received, activated,
                   engine_vars>>

\* one iteration of 'while self.human_outbox and processed_human_inputs < 5'
HumanInputStep ==
    /\ pc = "humans"
    /\ Store(get_human_input(Objects, config, Head(human_outbox).response,
                              Head(human_outbox).context_id),
             AfterHuman(Tail(human_outbox), count + 1))
    /\ LET item == Head(human_outbox)
       IN /\ human_outbox' = Tail(human_outbox)
          /\ trace' = Append(trace, Step("human", "", NoMessage, "", <<>>, pc' = "crashed"))
          /\ count' = IF AfterHuman(Tail(human_outbox), count + 1) = "humans"
                      THEN count + 1 ELSE 1
    /\ UNCHANGED <<config, internal_message_queue, cycles, injected, started,
                   activated, engine_vars>>

ActivateAgentWritingState ==
    /\ pc = "agents"
    /\ LET agent == Agents[count]
           last == count = Len(Agents)
       IN IF inbox[agent] = <<>>
          THEN /\ trace' = Append(trace, Step("activate", agent, NoMessage, "", <<>>, FALSE))
               /\ pc' = IF last THEN AfterInternal(internal_message_queue, 0) ELSE "agents"
               /\ UNCHANGED <<inbox, activated, internal_message_queue, project_state>>
          ELSE \E outcome \in Outcomes :
                 LET message == Head(inbox[agent])
                     r == Activation(message, agent, outcome)
                     called == message.type = "task" /\ IsDict(message.content)
                               /\ Sliceable(message.context_id)
                     queue == internal_message_queue \o r.sent
                 IN /\ called \/ outcome = "completed"
                    /\ inbox' = [inbox EXCEPT ![agent] = Tail(@)]
                    /\ activated' = [activated EXCEPT ![agent] = Append(@, message)]
                    /\ internal_message_queue' = queue
                    /\ project_state' = IF called
                                        THEN PutAt(project_state, <<"status">>, S(outcome))
                                        ELSE project_state
                    /\ trace' = Append(trace,
                                       Step("activate", agent, message,
                                            IF called THEN outcome ELSE "", r.sent, r.raised))
                    /\ pc' = IF r.raised THEN "crashed"
                             ELSE IF last THEN AfterInternal(queue, 0) ELSE "agents"
    /\ count' = IF count = Len(Agents) THEN 0 ELSE count + 1
    /\ UNCHANGED <<config, human_inbox, human_outbox, uuids, cycles, injected,
                   started, received, engine_vars>>

\* one iteration of 'for agent_name, agent_obj in self.agents.items()':
\* agent_obj.process_pending_tasks()
ActivateAgent ==
    /\ pc = "agents"
    /\ LET agent == Agents[count]
           last == count = Len(Agents)
       IN IF inbox[agent] = <<>>
          THEN /\ trace' = Append(trace, Step("activate", agent, NoMessage, "", <<>>, FALSE))
               /\ pc' = IF last THEN AfterInternal(internal_message_queue, 0) ELSE "agents"
               /\ UNCHANGED <<inbox, activated, internal_message_queue>>
          ELSE \E outcome \in Outcomes :
                 LET message == Head(inbox[agent])
                     r == Activation(message, agent, outcome)
                     called == message.type = "task" /\ IsDict(message.content)
                               /\ Sliceable(message.context_id)
                     queue == internal_message_queue \o r.sent
                 IN /\ called \/ outcome = "completed"
                    /\ inbox' = [inbox EXCEPT ![agent] = Tail(@)]
                    /\ activated' = [activated EXCEPT ![agent] = Append(@, message)]
                    /\ internal_message_queue' = queue
                    /\ trace' = Append(trace,
                                       Step("activate", agent, message,
                                            IF called THEN outcome ELSE "", r.sent, r.raised))
                    /\ pc' = IF r.raised THEN "crashed"
                             ELSE IF last THEN AfterInternal(queue, 0) ELSE "agents"
    /\ count' = IF count = Len(Agents) THEN 0 ELSE count + 1
    /\ UNCHANGED <<config, project_state, human_inbox, human_outbox, uuids, cycles, injected,
                   started, received, engine_vars>>

\* one iteration of the while loop of _process_internal_messages
InternalMessageStep ==
    /\ pc = "internal"
    /\ Store(RouteOne(Objects, config, Head(internal_message_queue)),
             AfterInternal(Tail(internal_message_queue), count + 1))
    /\ internal_message_queue' = Tail(internal_message_queue)
    /\ trace' = Append(trace, Step("internal", "", Head(internal_message_queue), "", <<>>,
                                   pc' = "crashed"))
    /\ count' = count + 1
    /\ UNCHANGED <<config, human_outbox, cycles, injected, started, activated,
                   engine_vars>>

Next ==
    \/ StartAppDevelopment
    \/ ReceiveMessage
    \/ RouteInternalMessage
    \/ QueueHumanResponse
    \/ BeginCycle
    \/ HumanInputStep
    \/ ActivateAgent
    \/ InternalMessageStep

Spec == Init /\ [][Next]_vars

\* --------------------------------------- cycles over queues filled beforehand
MaxStorm == 12
MaxResponses == 6

\* the i-th message routed before the first cycle: a result for the
\* orchestrator, a message for an agent, a message for nobody, in turn
StormMessage(i) ==
    LET ctx == S("s" \o ToString(i))
    IN CASE i % 3 = 1 ->
              send_message("Code Sage", OrchestratorName, "result",
                           Dict([status |-> S("completed"), task_name |-> S("write_code")]),
                           ctx)
         [] i % 3 = 2 ->
              send_message("Code Sage", "Quality Guardian", "feedback",
                           Dict([description |-> S("bug")]), ctx)
         [] OTHER ->
              send_message("Code Sage", "Nobody", "result", Dict(EmptyMap), ctx)

\* a message for the orchestrator sent with send_message's default context_id
NoContextMessage ==
    send_message("Code Sage", OrchestratorName, "result",
                 Dict([status |-> S("completed")]), None)

StormQueues ==
    LET sizes == {0, 2} \cup (InternalBatch..MaxStorm)
    IN {[i \in 1..n |-> StormMessage(i)] : n \in sizes}
       \cup {[i \in 1..n |-> IF i = 3 THEN NoContextMessage ELSE StormMessage(i)] :
                n \in {InternalBatch + 1}}

\* the i-th (response, context_id) put into human_outbox
StormResponse(i) ==
    IF i % 2 = 1 THEN [response |-> S("Approve"), context_id |-> S("h" \o ToString(i))]
    ELSE [response |-> S("Cancel"), context_id |-> None]

StormOutboxes ==
    {[i \in 1..n |-> StormResponse(i)] : n \in {0, 1} \cup (HumanBatch..MaxResponses)}

StormMailboxes ==
    LET empty == [a \in AgentNames |-> <<>>]
    IN { empty,
         [empty EXCEPT !["Dream Weaver"] = <<Task("Dream Weaver", "define_concept", S("c1"))>>,
                       !["Code Sage"] = <<Task("Code Sage", "write_code", S("c2"))>>],
         [empty EXCEPT !["Master Builder"] = <<Task("Master Builder", "design", S("c1"))>>,
                       !["Quality Guardian"] = <<Task("Quality Guardian", "run_tests", None)>>] }

InitStorm ==
    /\ config = PipelineConfig
    /\ project_state = InitProjectState
    /\ inbox \in StormMailboxes
    /\ internal_message_queue \in StormQueues
    /\ human_inbox = <<>>
    /\ human_outbox \in StormOutboxes
    /\ uuids = 0
    /\ pc = "idle"
    /\ count = 0
    /\ cycles = 0
    /\ injected = 0
    /\ started = FALSE
    /\ received = inbox
    /\ activated = [a \in AgentNames |-> <<>>]
    /\ trace = <<>>
    /\ e_config = <<>>
    /\ e_type = "none"
    /\ e_event = Dict(EmptyMap)
    /\ e_state = InitProjectState
    /\ e_pre = [event |-> e_event, state |-> e_state]
    /\ e_out = NoCall

NextStorm ==
    \/ StartAppDevelopment
    \/ BeginCycle
    \/ HumanInputStep
    \/ ActivateAgent
    \/ InternalMessageStep

SpecStorm == InitStorm /\ [][NextStorm]_vars

\* ------------------------------------------------ calls of _execute_actions
MaxExecutes == 2

\* an action with a 'context_id' template
WithContextTemplate(action, template) ==
    [k \in DOMAIN action \cup {"context_id"} |->
        IF k = "context_id" THEN template ELSE action[k]]

\* event_data: an agent's result with a context id, a human response without
\* one (null), a start event with no context_id key
ExecuteEvents ==
    { Dict([sender |-> S("Quality Guardian"), type |-> S("status_update"),
            content |-> Dict([task_name |-> S("run_tests"), status |-> S("failed")]),
            context_id |-> S("c1")]),
      Dict([response |-> S("Approve"), context_id |-> None]),
      Dict([user_idea |-> S("X")]) }

ExecuteStates ==
    { InitProjectState,
      [InitProjectState EXCEPT !.v = [@ EXCEPT
           !["module_test_retries"] = DefaultDict([c1 |-> IntV(2)]),
           !["deployment_retries"] = IntV(1)]] }

DelegateQa == DelegateTask("Quality Guardian", "run_tests", Dict([module_name |-> S("m1")]), 1)
DelegateDeploy == DelegateTask("Deployment Master", "deploy", Dict(EmptyMap), 1)
DelegateBoth ==
    WithContextTemplate(DelegateTask("Code Sage", "fix_code", Dict(EmptyMap), 1), S("other"))
DelegateByTemplate ==
    WithContextTemplate(DelegateTask("Code Sage", "write_code", Dict(EmptyMap), 0),
                        S("{{event.context_id}}"))
DelegateFresh ==
    DelegateTask("Dream Weaver", "define_concept",
                 Dict([user_idea |-> S("{{event.user_idea}}")]), 0)
DelegateUnknown == DelegateTask("Nobody", "define_concept", Dict(EmptyMap), 1)
WriteStatus == UpdateState(<<"status">>, S("Testing"))
WriteCounter == UpdateState(<<"module_test_retries", "c1">>, IntV(1))
WriteModule == UpdateState(<<"code_modules_status", "m1">>, S("completed"))
WriteMissingParent == UpdateState(<<"missing", "leaf">>, S("x"))
WriteThroughText == UpdateState(<<"status", "leaf">>, S("x"))
WriteDeepMissing == UpdateState(<<"code_modules_status", "m9", "leaf">>, S("x"))
AskPlain == SendHumanMessage("QUESTION", Str(<<"Approve ", "{{event.user_idea}}", "?">>))
AskByTemplate ==
    WithContextTemplate(SendHumanMessage("INFO", S("Note")), S("{{event.context_id}}"))
AskFixed == WithContextTemplate(SendHumanMessage("QUESTION", S("Sure?")), S("fixed"))
AskUnresolved ==
    WithContextTemplate(SendHumanMessage("INFO", S("Note")), S("{{state.missing}}"))

\* the action lists handed to _execute_actions
ExecuteLists ==
    { <<a>> : a \in { DelegateQa, DelegateDeploy, DelegateBoth, DelegateByTemplate,
                      DelegateFresh, DelegateUnknown, WriteStatus, WriteCounter,
                      WriteModule, WriteMissingParent, WriteThroughText,
                      WriteDeepMissing, AskPlain, AskByTemplate, AskFixed,
                      AskUnresolved } }
    \cup { <<WriteCounter, DelegateQa>>, <<DelegateQa, DelegateBoth>>,
           <<WriteStatus, AskPlain, DelegateFresh>>, <<WriteMissingParent, WriteStatus>>,
           <<DelegateUnknown, WriteModule>>, <<AskFixed, AskByTemplate>> }

InitExecute ==
    /\ config = EmptyConfig
    /\ project_state \in ExecuteStates
    /\ inbox = [a \in AgentNames |-> <<>>]
    /\ internal_message_queue = <<>>
    /\ human_inbox = <<>>
    /\ human_outbox = <<>>
    /\ uuids = 0
    /\ pc = "idle"
    /\ count = 0
    /\ cycles = 0
    /\ injected = 0
    /\ started = FALSE
    /\ received = [a \in AgentNames |-> <<>>]
    /\ activated = [a \in AgentNames |-> <<>>]
    /\ trace = <<>>
    /\ e_config = <<>>
    /\ e_type = "none"
    /\ e_event \in ExecuteEvents
    /\ e_state = InitProjectState
    /\ e_pre = [event |-> e_event, objects |-> Objects]
    /\ e_out = NoCall

\* a call of _execute_actions(actions, event_data)
CallExecuteActions ==
    /\ pc = "idle"
    /\ count < MaxExecutes
    /\ \E actions \in ExecuteLists :
           /\ Store(_execute_actions(Objects, actions, e_event), "idle")
           /\ e_out' = [NoCall EXCEPT !.call = "_execute_actions", !.actions = actions,
                                      !.raised = (pc' = "crashed")]
    /\ e_pre' = [event |-> e_event, objects |-> Objects]
    /\ count' = count + 1
    /\ UNCHANGED <<config, internal_message_queue, human_outbox, cycles, injected, started,
                   activated, trace, e_config, e_type, e_event, e_state>>

NextExecute == CallExecuteActions

SpecExecute == InitExecute /\ [][NextExecute]_vars

\* ---------------------------------------------- the command-line driver
\* the main loop of ai_app_builder_workflow.py: cycles counts simulation_steps
\* and injected the passes through the part of the loop body after the cycle
MAX_SIMULATION_STEPS == 100

\* a rule table in the shape of workflow_config.json whose runs come to rest
DriverConfig ==
    [start |->
       << Handler(<<>>,
            << UpdateState(<<"status">>, S("Ideation")),
               DelegateTask("Dream Weaver", "define_concept",
                            Dict([user_idea |-> S("{{event.user_idea}}")]), 0) >>) >>,
     agent_result |->
       << Handler(<<Group("event_data",
                          <<Pair(<<"type">>, S("result")),
                            Pair(<<"content", "status">>, S("completed")),
                            Pair(<<"content", "task_name">>, S("define_concept"))>>)>>,
            << UpdateState(<<"status">>, S("Awaiting Approval")),
               SendHumanMessage("QUESTION", S("Approve?")) >>),
          Handler(<<Group("event_data", <<Pair(<<"type">>, S("status_update"))>>)>>,
            << UpdateState(<<"status">>, S("Deployment Failed (Escalated)")),
               SendHumanMessage("INFO", S("Escalated")) >>),
          Handler(<<Group("event_data", <<Pair(<<"content", "status">>, S("failed"))>>)>>,
            << UpdateState(<<"status">>, S("Project Ended")) >>),
          Handler(<<>>, << UpdateState(<<"status">>, S("App Live!")) >>) >>,
     human_input |->
       << Handler(<<Group("event_data", <<Pair(<<"response">>, S("Approve"))>>)>>,
            << UpdateState(<<"status">>, S("Approved")),
               DelegateTask("Code Sage", "write_code",
                            Dict([module_name |-> S("m1")]), 1) >>),
          Handler(<<>>, << UpdateState(<<"status">>, S("Project Cancelled")) >>) >>]

\* what the user types at input()
UserResponses == {S("Approve"), S("Cancel")}

InitDriver ==
    /\ config = DriverConfig
    /\ Constructed
    /\ e_config = <<>>
    /\ e_type = "none"
    /\ e_event = Dict(EmptyMap)
    /\ e_state = InitProjectState
    /\ e_pre = [event |-> e_event, state |-> e_state]
    /\ e_out = NoCall

\* the statuses that end the while loop
LoopExits == {S("App Live!"), S("Project Cancelled")}

\* the while test holds: simulation_steps += 1 and run_simulation_cycle()
\* is entered
DriverRunsCycle ==
    /\ pc = "idle"
    /\ started
    /\ injected = cycles
    /\ project_state.v["status"] \notin LoopExits
    /\ cycles < MAX_SIMULATION_STEPS
    /\ cycles' = cycles + 1
    /\ trace' = <<>>
    /\ pc' = AfterHuman(human_outbox, 0)
    /\ count' = IF human_outbox # <<>> THEN 0 ELSE 1
    /\ UNCHANGED <<config, project_state, inbox, internal_message_queue, human_inbox,
                   human_outbox, uuids, injected, started, received, activated,
                   engine_vars>>

\* the cycle has returned and the part of the loop body after it is due
AfterCycle == pc = "idle" /\ started /\ injected < cycles

PromptDue ==
    /\ Truthy(project_state.v["pending_human_approval_context"])
    /\ human_inbox # <<>>

\* 'if pending_human_approval_context and human_inbox': the oldest message
\* for the human is taken, the user answers, get_human_input is called
DriverTakesPrompt ==
    /\ AfterCycle
    /\ PromptDue
    /\ LET latest_human_prompt == Head(human_inbox)
           o == [Objects EXCEPT !.human_inbox = Tail(@)]
       IN IF ~Sliceable(latest_human_prompt.context_id)
          THEN /\ Store(Raise(o), "idle")
               /\ UNCHANGED <<e_pre, e_out>>
          ELSE \E user_response \in UserResponses :
                 /\ Store(get_human_input(o, config, user_response,
                                          latest_human_prompt.context_id), "idle")
                 /\ e_pre' = [event |-> Dict([response |-> user_response,
                                             context_id |-> latest_human_prompt.context_id]),
                              objects |-> Objects]
                 /\ e_out' = [NoCall EXCEPT !.call = "get_human_input",
                                            !.raised = (pc' = "crashed")]
    /\ injected' = injected + 1
    /\ UNCHANGED <<config, internal_message_queue, human_outbox, count, cycles, started,
                   activated, trace, e_config, e_type, e_event, e_state>>

\* no prompt to answer: the loop body ends
DriverContinues ==
    /\ AfterCycle
    /\ ~PromptDue
    /\ injected' = injected + 1
    /\ UNCHANGED <<config, project_state, inbox, internal_message_queue, human_inbox,
                   human_outbox, uuids, pc, count, cycles, started, received, activated,
                   trace, engine_vars>>

NextDriver ==
    \/ StartAppDevelopment
    \/ DriverRunsCycle
    \/ ActivateAgent
    \/ InternalMessageStep
    \/ DriverTakesPrompt
    \/ DriverContinues

SpecDriver == InitDriver /\ [][NextDriver]_vars

\* ------------------------------------------------ claims about the workers
\* the steps of the current cycle in which agent a popped a message
Activations(a) ==
    {i \in 1..Len(trace) : /\ trace[i].kind = "activate"
                           /\ trace[i].agent = a
                           /\ trace[i].message # NoMessage}

\* the place of an agent in the activation order of a cycle
Place(a) == CHOOSE k \in 1..Len(Agents) : Agents[k] = a

\* C1: the messages an agent has popped so far, followed by those still in
\* its mailbox, are the messages its mailbox was given, in the order it was
\* given them; a cycle pops at most one message per agent, so an agent has
\* popped at most as many messages as there were cycles.
C1_MailboxFifo ==
    \A a \in AgentNames :
        /\ received[a] = activated[a] \o inbox[a]
        /\ Cardinality(Activations(a)) <= 1
        /\ Len(activated[a]) <= cycles

\* two different messages were queued for one agent and it took two cycles
\* to pop them, the second one in the second cycle
C1_Witness ==
    \E a \in AgentNames :
        /\ cycles = 2
        /\ Len(activated[a]) = 2
        /\ activated[a][1] # activated[a][2]
        /\ received[a] = activated[a]
        /\ \E i \in Activations(a) : trace[i].message = received[a][2]

\* C2: in every activation, a popped task makes the agent send exactly one
\* message, addressed to the Orchestrator and carrying the task's context_id;
\* a popped message of another kind, or an empty mailbox, makes it send none.
C2_OneReplyPerTask ==
    \A i \in 1..Len(trace) :
        trace[i].kind = "activate" =>
            IF trace[i].message.type = "task"
            THEN /\ ~trace[i].raised
                 /\ Len(trace[i].sent) = 1
                 /\ trace[i].sent[1].recipient = OrchestratorName
                 /\ trace[i].sent[1].context_id = trace[i].message.context_id
            ELSE trace[i].sent = <<>>

\* C3: when process_task raises, the agent sends one status_update with
\* status 'failed', the task's name and the task's context_id, no error leaves
\* the activation, and the cycle goes on to the next agent.
C3_HandlerErrorContained ==
    \A i \in 1..Len(trace) :
        (trace[i].kind = "activate" /\ trace[i].outcome = "raise") =>
            /\ ~trace[i].raised
            /\ Len(trace[i].sent) = 1
            /\ trace[i].sent[1].type = "status_update"
            /\ trace[i].sent[1].recipient = OrchestratorName
            /\ trace[i].sent[1].content.v["status"] = S("failed")
            /\ trace[i].sent[1].content.v["task_name"] =
                   GetOr(trace[i].message.content.v, "task_name", S("Unnamed Task"))
            /\ trace[i].sent[1].context_id = trace[i].message.context_id
            /\ i = Len(trace) =>
                   /\ pc # "crashed"
                   /\ Place(trace[i].agent) < Len(Agents) =>
                          pc = "agents" /\ count = Place(trace[i].agent) + 1

\* an agent's process_task raised and a later agent of the same cycle popped
\* a message of its own
C3_Witness ==
    \E i, j \in 1..Len(trace) :
        /\ i < j
        /\ trace[i].kind = "activate"
        /\ trace[i].outcome = "raise"
        /\ trace[j].kind = "activate"
        /\ trace[j].message # NoMessage
        /\ pc \in {"internal", "idle"}

\* ------------------------------------------------- claims about the engine
\* The value a dotted path reads in data, if it reads one: every segment is a
\* key of the map reached so far (a defaultdict supplying 0 for a key it
\* does not hold; keys that are absent altogether are the subject of C6).
RECURSIVE Reads(_, _)
Reads(data, path) ==
    IF path = <<>> THEN [found |-> TRUE, val |-> data]
    ELSE IF ~IsDict(data) THEN [found |-> FALSE, val |-> None]
    ELSE IF Head(path) \in DOMAIN data.v THEN Reads(data.v[Head(path)], Tail(path))
    ELSE IF data.t = "defaultdict" THEN Reads(IntV(0), Tail(path))
    ELSE [found |-> FALSE, val |-> None]

PairMatches(data, pair) ==
    Reads(data, pair.key).found /\ PyEq(Reads(data, pair.key).val, pair.expected)

GroupMatches(group, event_data, pstate) ==
    /\ group.name \in {"event_data", "project_state"}
    /\ group.isdict
    /\ \A j \in 1..Len(group.pairs) :
           PairMatches(IF group.name = "event_data" THEN event_data ELSE pstate,
                       group.pairs[j])

ConditionsHold(conditions, event_data, pstate) ==
    \A i \in 1..Len(conditions) : GroupMatches(conditions[i], event_data, pstate)

\* every segment of the path is a key that is really there
RECURSIVE KeyPresent(_, _)
KeyPresent(data, path) ==
    \/ path = <<>>
    \/ /\ IsDict(data)
       /\ Head(path) \in DOMAIN data.v
       /\ KeyPresent(data.v[Head(path)], Tail(path))

IsCheck(action) == "type" \in DOMAIN action /\ action["type"] = S("check_condition")
NotCheck(action) == ~IsCheck(action)

AllModulesCompleted(pstate) ==
    LET m == pstate.v["code_modules_status"]
    IN IsDict(m) /\ DOMAIN m.v # {} /\ \A k \in DOMAIN m.v : m.v[k] = S("completed")

CheckHolds(action, pstate) ==
    /\ "condition_type" \in DOMAIN action
    /\ action["condition_type"] = S("all_modules_completed")
    /\ AllModulesCompleted(pstate)

MinOf(set) == CHOOSE x \in set : \A y \in set : x <= y

CalledHandlers == EventHandlers(EngineConfig, e_type)
Firing == { h \in 1..Len(CalledHandlers) :
              ConditionsHold(CalledHandlers[h].conditions, e_pre.event, e_pre.state) }
WinnerActions == CalledHandlers[MinOf(Firing)].actions
FailingChecks == { k \in 1..Len(WinnerActions) :
                     IsCheck(WinnerActions[k]) /\ ~CheckHolds(WinnerActions[k], e_pre.state) }
Cut == IF FailingChecks = {} THEN Len(WinnerActions) ELSE MinOf(FailingChecks) - 1
Returned == e_out.call = "process_event" /\ ~e_out.raised

\* C4: process_event returns actions of at most one handler, the first handler
\* in document order whose conditions hold: nothing when no handler fires,
\* and otherwise the non-check actions of a prefix of the first firing
\* handler's action list (possibly none), whatever later handlers would match.
C4_FirstMatchWins ==
    Returned =>
        IF Firing = {} THEN e_out.actions = <<>>
        ELSE \E n \in 0..Len(WinnerActions) :
                 e_out.actions = SelectSeq(SubSeq(WinnerActions, 1, n), NotCheck)

C4_Witness ==
    /\ Returned
    /\ {1, 2} \subseteq Firing
    /\ CalledHandlers[1] # CalledHandlers[2]
    /\ e_out.actions # <<>>

\* C5: _check_conditions answers true exactly when every declared group is
\* event_data or project_state, is a map, and every one of its pairs matches
\* by dotted-path lookup; a handler with no conditions always fires.
C5_ConjunctiveConditions ==
    e_out.call = "_check_conditions" =>
        (e_out.ok <=> ConditionsHold(e_out.conditions, e_pre.event, e_pre.state))

C5_Witness ==
    /\ e_out.call = "_check_conditions"
    /\ Len(e_out.conditions) = 2
    /\ e_out.ok

\* C6: a condition whose path names a key absent from the event payload or
\* from shared state is a mismatch, whatever the expected value.
C6_AbsentKeyMismatch ==
    e_out.call = "_check_conditions" =>
        \A i \in 1..Len(e_out.conditions) :
            \A j \in 1..Len(e_out.conditions[i].pairs) :
                LET group == e_out.conditions[i]
                    data == IF group.name = "event_data" THEN e_pre.event ELSE e_pre.state
                IN ~KeyPresent(data, group.pairs[j].key) => ~e_out.ok

\* C7: for the winning handler process_event returns exactly the
\* non-check_condition actions, in order, that precede the first
\* check_condition evaluating false (all of them if none does).
C7_ActionsUpToFailingCheck ==
    (Returned /\ Firing # {}) =>
        e_out.actions = SelectSeq(SubSeq(WinnerActions, 1, Cut), NotCheck)

C7_Witness ==
    /\ Returned
    /\ Firing # {}
    /\ FailingChecks # {}
    /\ e_out.actions # <<>>
    /\ \E k \in 1..Len(WinnerActions) : k > MinOf(FailingChecks) /\ NotCheck(WinnerActions[k])

\* C8: all_modules_completed is true iff the module-status map is non-empty
\* and all its values are 'completed'; any other condition name is false.
C8_AllModulesCompleted ==
    (e_out.call = "_evaluate_condition" /\ IsDict(e_pre.state.v["code_modules_status"])) =>
        /\ ~e_out.raised
        /\ e_out.ok <=> CheckHolds(e_out.action, e_pre.state)

C8_Witness ==
    /\ e_out.call = "_evaluate_condition"
    /\ e_out.ok
    /\ Cardinality(DOMAIN e_pre.state.v["code_modules_status"].v) = 2

\* C9: process_event leaves shared state and the event payload as they were.
C9_ProcessEventSideEffectFree ==
    e_out.call = "process_event" => (e_state = e_pre.state /\ e_event = e_pre.event)

\* a segment of the path is missing or null: the walk through maps meets an
\* absent key or a None value
RECURSIVE MissingOrNull(_, _)
MissingOrNull(data, path) ==
    /\ path # <<>>
    /\ IsDict(data)
    /\ \/ Head(path) \notin DOMAIN data.v
       \/ data.v[Head(path)] = None
       \/ MissingOrNull(data.v[Head(path)], Tail(path))

IsRef(tok) == \E r \in RefTable : r.tok = tok
RefMissing(tok, event_data, pstate) ==
    /\ IsRef(tok)
    /\ MissingOrNull(IF RefOf(tok).source \in {"event", "result"}
                     THEN event_data ELSE pstate,
                     RefOf(tok).key_path)

\* text is template with every missing reference replaced by N/A, every
\* atom that is no reference kept, and any text for the other references
RECURSIVE Resolves(_, _, _, _)
Resolves(template, text, event_data, pstate) ==
    IF template = <<>> THEN text = <<>>
    ELSE IF RefMissing(Head(template), event_data, pstate)
    THEN /\ text # <<>>
         /\ Head(text) = "N/A"
         /\ Resolves(Tail(template), Tail(text), event_data, pstate)
    ELSE IF ~IsRef(Head(template))
    THEN /\ text # <<>>
         /\ Head(text) = Head(template)
         /\ Resolves(Tail(template), Tail(text), event_data, pstate)
    ELSE \E n \in 0..Len(text) :
             Resolves(Tail(template), SubSeq(text, n + 1, Len(text)),
                      event_data, pstate)

\* C10: resolving a string template replaces every reference whose path has a
\* missing or null segment by N/A, raises nothing, leaves event and state as
\* they were, and gives the same text when the call is repeated.
C10_TemplateTotalOnMissing ==
    e_out.call = "_substitute_template" =>
        /\ ~e_out.raised
        /\ Resolves(e_out.template, e_out.text, e_pre.event, e_pre.state)
        /\ e_state = e_pre.state
        /\ e_event = e_pre.event
        /\ e_out.repeat => e_out.text = e_out.prev_text

C10_Witness ==
    /\ e_out.call = "_substitute_template"
    /\ e_out.repeat
    /\ \E i \in 1..Len(e_out.template) :
           RefMissing(e_out.template[i], e_pre.event, e_pre.state)
    /\ \E i \in 1..Len(e_out.text) : e_out.text[i] = "N/A"

\* the walk of the path through maps reaches a value that is neither a map
\* nor None while segments remain: the next segment indexes a non-map
RECURSIVE IndexesNonMap(_, _)
IndexesNonMap(data, path) ==
    /\ path # <<>>
    /\ data # None
    /\ IsDict(data) => /\ Head(path) \in DOMAIN data.v
                       /\ IndexesNonMap(data.v[Head(path)], Tail(path))

RefNonMap(tok, event_data, pstate) ==
    /\ IsRef(tok)
    /\ IndexesNonMap(IF RefOf(tok).source \in {"event", "result"}
                     THEN event_data ELSE pstate,
                     RefOf(tok).key_path)

\* text is template with every reference that indexes a non-map replaced by
\* the error marker, every atom that is no reference kept, and any text for
\* the other references
RECURSIVE MarksNonMap(_, _, _, _)
MarksNonMap(template, text, event_data, pstate) ==
    IF template = <<>> THEN text = <<>>
    ELSE IF RefNonMap(Head(template), event_data, pstate)
    THEN /\ text # <<>>
         /\ Head(text) = "ERROR_SUBSTITUTING"
         /\ MarksNonMap(Tail(template), Tail(text), event_data, pstate)
    ELSE IF ~IsRef(Head(template))
    THEN /\ text # <<>>
         /\ Head(text) = Head(template)
         /\ MarksNonMap(Tail(template), Tail(text), event_data, pstate)
    ELSE \E n \in 0..Len(text) :
             MarksNonMap(Tail(template), SubSeq(text, n + 1, Len(text)),
                         event_data, pstate)

\* C11: resolving a string template replaces every reference whose path
\* indexes into a value that is not a map (a further segment applied to a
\* string or a number) by the error marker ERROR_SUBSTITUTING.
C11_NonMapIndexErrorMarker ==
    e_out.call = "_substitute_template" =>
        MarksNonMap(e_out.template, e_out.text, e_pre.event, e_pre.state)

\* ---------------------------------------------- claims about _execute_actions
Executed == e_out.call = "_execute_actions"
EventContext == Get(e_pre.event.v, "context_id")

\* the messages a mailbox was given by the last call, in order
Delivered(a) ==
    SubSeq(received[a], Len(e_pre.objects.received[a]) + 1, Len(received[a]))

\* the positions of the delegations to agent a in the executed list
DelegationsTo(a) ==
    {k \in 1..Len(e_out.actions) : e_out.actions[k]["agent"] = S(a)}

\* every executed action delegates to a registered agent and asks for the
\* event's context id
ReusesEventContext ==
    /\ Executed
    /\ Truthy(EventContext)
    /\ \A k \in 1..Len(e_out.actions) :
           /\ e_out.actions[k]["type"] = S("delegate_task")
           /\ e_out.actions[k]["agent"] \in {S(a) : a \in AgentNames}
           /\ Truthy(e_out.actions[k]["use_event_context_id"])

Ledger(pstate) == pstate.v["current_task_contexts"].v
PerContext(pstate) == pstate.v["module_test_retries"].v

\* the retry counter a task for agent a under context key c is stamped from
RetryCounter(a, c, pstate) ==
    IF a = "Quality Guardian" THEN PerContext(pstate)[c]
    ELSE pstate.v["deployment_retries"]

\* C12: delegations that ask for the event's context id c, executed for an
\* event carrying c, send their tasks under c and write the ledger entry
\* under c, whatever context template they have; a task for a retryable
\* agent is stamped with the current value of the counter (the per-context
\* one under c, or the deployment one), and no counter that existed is reset.
C12_ContextStability ==
    ReusesEventContext =>
        LET c == ContextKey(EventContext)
            last == e_out.actions[Len(e_out.actions)]
        IN /\ ~e_out.raised
           /\ \A a \in AgentNames :
                  /\ Len(Delivered(a)) = Cardinality(DelegationsTo(a))
                  /\ \A i \in 1..Len(Delivered(a)) :
                         /\ Delivered(a)[i].type = "task"
                         /\ Delivered(a)[i].context_id = EventContext
                         /\ S(a) \in Retryable =>
                                Delivered(a)[i].content.v["retry_attempt"] =
                                    RetryCounter(a, c, project_state)
           /\ DOMAIN Ledger(project_state) = DOMAIN Ledger(e_pre.objects.project_state) \cup {c}
           /\ Ledger(project_state)[c].v["task_name"] = last["task"]
           /\ Ledger(project_state)[c].v["agent"] = last["agent"]
           /\ \A k \in DOMAIN PerContext(e_pre.objects.project_state) :
                  PerContext(project_state)[k] = PerContext(e_pre.objects.project_state)[k]
           /\ project_state.v["deployment_retries"] =
                  e_pre.objects.project_state.v["deployment_retries"]
           /\ uuids = e_pre.objects.uuids

\* a second delegation to the Quality Guardian under a context whose counter
\* already stood at a value other than 0 was stamped with that value
C12_Witness ==
    /\ ReusesEventContext
    /\ count = 2
    /\ "context_id" \in DOMAIN e_out.actions[Len(e_out.actions)]
    /\ \E i \in 1..Len(Delivered("Quality Guardian")) :
           /\ Delivered("Quality Guardian")[i].content.v["retry_attempt"] # IntV(0)
           /\ Len(received["Quality Guardian"]) >= 2

\* ------------------------------------------------------ claims about a start
\* the context ids of the messages a mailbox holds
ContextsIn(box) == {box[i].context_id : i \in 1..Len(box)}

\* the rule table's start handlers delegate one task, to a registered agent
OneStartDelegation(table) ==
    /\ "start" \in DOMAIN table
    /\ Len(table["start"]) = 1
    /\ Cardinality({k \in 1..Len(table["start"][1]["actions"]) :
                       table["start"][1]["actions"][k]["type"] = S("delegate_task")}) = 1
    /\ \A k \in 1..Len(table["start"][1]["actions"]) :
           table["start"][1]["actions"][k]["type"] = S("delegate_task") =>
               table["start"][1]["actions"][k]["agent"] \in {S(a) : a \in AgentNames}

StartDelegation(table) ==
    LET acts == table["start"][1]["actions"]
    IN acts[CHOOSE k \in 1..Len(acts) : acts[k]["type"] = S("delegate_task")]

\* what one start with idea X did to the mailboxes and the ledger
StartedWith(X) ==
    LET worker == Joined(StartDelegation(config)["agent"].v)
        cid == S("u" \o ToString(uuids'))
    IN /\ pc' = "idle"
       /\ uuids' = uuids + 1
       /\ \A a \in AgentNames \ {worker} : inbox'[a] = inbox[a]
       /\ Len(inbox'[worker]) = Len(inbox[worker]) + 1
       /\ SubSeq(inbox'[worker], 1, Len(inbox[worker])) = inbox[worker]
       /\ LET message == inbox'[worker][Len(inbox'[worker])]
          IN /\ message.type = "task"
             /\ message.context_id = cid
             /\ message.content.v["task_name"] = StartDelegation(config)["task"]
       \* the id was in use nowhere before
       /\ \A a \in AgentNames : cid \notin ContextsIn(received[a])
       /\ Joined(cid.v) \notin DOMAIN Ledger(project_state)
       /\ DOMAIN Ledger(project_state') = DOMAIN Ledger(project_state) \cup {Joined(cid.v)}
       /\ \A k \in DOMAIN Ledger(project_state) :
              Ledger(project_state')[k] = Ledger(project_state)[k]
       /\ Ledger(project_state')[Joined(cid.v)].v["original_content"].v["user_idea"] = X

\* C13: a start event with payload {user_idea: X}, against a rule table whose
\* only start handler delegates one task to a registered agent, puts exactly
\* one task message into that agent's mailbox and none into any other, under
\* a freshly minted context id, and adds exactly one ledger entry, under that
\* id, whose original payload has user_idea = X.
C13_EndToEndStart ==
    [][(StartAppDevelopment /\ OneStartDelegation(config)) =>
           StartedWith(project_state'.v["app_idea"])]_vars

\* after a start, with other mail already delivered, the first agent holds
\* the task of the started project under the first minted id
C13_Witness ==
    /\ started /\ cycles = 0 /\ OneStartDelegation(config)
    /\ uuids = 1
    /\ \E i \in 1..Len(inbox["Dream Weaver"]) :
           /\ i > 1
           /\ inbox["Dream Weaver"][i].context_id = S("u1")
           /\ inbox["Dream Weaver"][i].content.v["user_idea"] = S("X")
    /\ DOMAIN Ledger(project_state) = {"u1"}

\* ------------------------------------------------------- claims about cycles
\* the steps of one kind in the trace of a cycle
StepsOf(kind) == {i \in 1..Len(trace) : trace[i].kind = kind}
StepsOfNext(kind) == {i \in 1..Len(trace') : trace'[i].kind = kind}

IsPrefix(p, q) == Len(p) <= Len(q) /\ SubSeq(q, 1, Len(p)) = p

\* the step ends the internal drain of a cycle (the drain of an empty queue
\* has no step of its own: the last activation ends it)
DrainEnds ==
    \/ pc = "internal" /\ pc' # "internal"
    \/ pc = "agents" /\ pc' = "idle"

\* C14: one cycle consumes exactly the first min(n, 10) of the n messages the
\* internal queue holds when its drain starts, from the head and in order,
\* and leaves the others queued in their order at the head of the queue,
\* where no other stage removes or overtakes them.
C14_InternalBatchCap ==
    [][/\ pc = "internal" =>
            /\ internal_message_queue' = Tail(internal_message_queue)
            /\ trace'[Len(trace')].kind = "internal"
            /\ trace'[Len(trace')].message = Head(internal_message_queue)
       /\ pc # "internal" => IsPrefix(internal_message_queue, internal_message_queue')
       /\ DrainEnds =>
            LET consumed == Cardinality(StepsOfNext("internal"))
                n == consumed + Len(internal_message_queue')
            IN consumed = IF n < InternalBatch THEN n ELSE InternalBatch]_vars

InCycle == pc \in {"humans", "agents", "internal"}

ActivationsOfNext(a) == {i \in StepsOfNext("activate") : trace'[i].agent = a}

\* C15: every call of run_simulation_cycle ends, whatever the queues hold:
\* each step of a cycle adds one entry to a trace that never exceeds
\* 5 + (number of agents) + 10 entries; when the call is over at most 5 human
\* responses were fed to the engine, every agent was activated exactly once
\* and at most 10 internal messages were drained; human responses leave
\* their queue from the head only, so those over the cap stay queued in
\* order.
C15_CycleTerminates ==
    [][/\ InCycle =>
            /\ Len(trace') = Len(trace) + 1
            /\ Len(trace') <= HumanBatch + Len(Agents) + InternalBatch
       /\ (InCycle /\ pc' \in {"idle", "crashed"}) =>
            /\ Cardinality(StepsOfNext("human")) <= HumanBatch
            /\ Cardinality(StepsOfNext("internal")) <= InternalBatch
            /\ \A a \in AgentNames : Cardinality(ActivationsOfNext(a)) = 1
       /\ human_outbox' = IF pc = "humans" THEN Tail(human_outbox) ELSE human_outbox
       /\ (pc = "humans" /\ pc' = "agents") =>
            (human_outbox' = <<>> \/ Cardinality(StepsOfNext("human")) = HumanBatch)]_vars

\* the place of a stage in the order human drain, activations, internal drain
HumanFirst(kind) ==
    CASE kind = "human" -> 1 [] kind = "activate" -> 2 [] kind = "internal" -> 3

Ordered(rank(_)) ==
    \A i, j \in 1..Len(trace) : i < j => rank(trace[i].kind) <= rank(trace[j].kind)

\* the messages the activations of the cycle sent, in the order of the trace
RECURSIVE SentFrom(_)
SentFrom(i) == IF i > Len(trace) THEN <<>> ELSE trace[i].sent \o SentFrom(i + 1)

IsSuffix(p, q) == Len(p) <= Len(q) /\ SubSeq(q, Len(q) - Len(p) + 1, Len(q)) = p

Registration(a) == CHOOSE k \in 1..Len(Agents) : Agents[k] = a

WorkersFirst(kind) ==
    CASE kind = "activate" -> 1 [] kind = "internal" -> 2 [] kind = "human" -> 3

\* C17: in a cycle every agent first processes at most one queued message,
\* then the internal messages are drained (at most 10), and only then the
\* pending human responses (at most 5).
C17_WorkersInternalHuman ==
    /\ Ordered(WorkersFirst)
    /\ \A a \in AgentNames :
           Cardinality({i \in StepsOf("activate") : trace[i].agent = a}) <= 1
    /\ Cardinality(StepsOf("internal")) <= InternalBatch
    /\ Cardinality(StepsOf("human")) <= HumanBatch

\* ------------------------------------------- claims about event submission
\* the event a step hands to the engine, with the shared state it is matched
\* against (type "none": the step submits no event)
Submitted ==
    IF pc = "idle" /\ ~started /\ started'
    THEN [type |-> "start",
          event |-> Dict([user_idea |-> project_state'.v["app_idea"]]),
          state |-> PutAt(project_state, <<"app_idea">>, project_state'.v["app_idea"])]
    ELSE IF pc = "humans"
    THEN LET item == Head(human_outbox)
             pending == project_state.v["pending_human_approval_context"]
             final == IF item.context_id # None THEN item.context_id ELSE pending
         IN [type |-> "human_input",
             event |-> Dict([response |-> item.response, context_id |-> final]),
             state |-> IF PyEq(pending, final)
                       THEN PutAt(project_state, <<"pending_human_approval_context">>, None)
                       ELSE project_state]
    ELSE IF /\ pc = "internal"
            /\ Head(internal_message_queue).recipient = OrchestratorName
            /\ Head(internal_message_queue).type \in {"result", "status_update"}
    THEN LET m == Head(internal_message_queue)
         IN [type |-> "agent_result",
             event |-> Dict([sender |-> S(m.sender), type |-> S(m.type),
                             content |-> m.content, context_id |-> m.context_id]),
             state |-> project_state]
    ELSE [type |-> "none", event |-> None, state |-> project_state]

\* the actions the engine returns for the event a step submits
ReturnedFor(submitted) ==
    IF submitted.type = "none" THEN <<>>
    ELSE process_event(config, submitted.type, submitted.event, submitted.state).actions

OfType(actions, type) == SelectSeq(actions, LAMBDA a : a["type"] = S(type))

\* no later action of the list writes the path of the k-th
LastWrite(actions, k) ==
    \A j \in (k + 1)..Len(actions) :
        actions[j]["type"] = S("update_state") => actions[j]["path"] # actions[k]["path"]

Registered(agent_name) == agent_name.t = "str" /\ Joined(agent_name.v) \in AgentNames

\* the action makes a message for the human: a send_human_message, or a
\* delegate_task naming an agent that is not registered (an ERROR message)
Asks(action) ==
    \/ action["type"] = S("send_human_message")
    \/ action["type"] = S("delegate_task") /\ ~Registered(action["agent"])
AskedType(action) ==
    IF action["type"] = S("send_human_message") THEN action["message_type"] ELSE S("ERROR")

\* the effects of a list of returned actions are there, in list order
Applied(actions) ==
    LET asked == SubSeq(human_inbox', Len(human_inbox) + 1, Len(human_inbox'))
        asks == SelectSeq(actions, Asks)
    IN /\ Len(asked) = Len(asks)
       /\ \A k \in 1..Len(asks) : asked[k].type = AskedType(asks[k])
       /\ \A a \in AgentNames :
              LET mail == SubSeq(received'[a], Len(received[a]) + 1, Len(received'[a]))
                  tasks == SelectSeq(OfType(actions, "delegate_task"),
                                     LAMBDA d : d["agent"] = S(a))
              IN /\ Len(mail) = Len(tasks)
                 /\ inbox'[a] = inbox[a] \o mail
                 /\ \A k \in 1..Len(tasks) :
                        /\ mail[k].type = "task"
                        /\ mail[k].content.v["task_name"] = tasks[k]["task"]
       /\ \A k \in 1..Len(actions) :
              (actions[k]["type"] = S("update_state") /\ LastWrite(actions, k)) =>
                  GetWalk(project_state', actions[k]["path"].v).val = actions[k]["value"]

\* C18: when the submission of a start, agent_result or human_input event
\* returns, every action the engine returned for it has been executed, in
\* list order: the state writes are in the shared state, the human messages
\* at the tail of the human queue, the tasks at the tail of the mailboxes.
C18_SubmissionSynchronous ==
    [][\A submitted \in {Submitted} :
           (submitted.type # "none" /\ pc' # "crashed") =>
               \A actions \in {ReturnedFor(submitted)} : Applied(actions)]_vars

\* an agent's result was submitted: the handler's state write and its
\* question to the human are both there
C18_Witness ==
    /\ project_state.v["status"] = S("Awaiting Approval")
    /\ human_inbox # <<>>
    /\ human_inbox[Len(human_inbox)].type = S("QUESTION")
    /\ trace # <<>> /\ trace[Len(trace)].kind = "internal"

\* ---------------------------------------------- claims about update_state
\* the value the first i keys of a path lead to, None once a key is missing
\* or the value it is looked up in is no map
RECURSIVE Reach(_, _, _)
Reach(d, keys, i) ==
    IF i = 0 THEN d
    ELSE LET parent == Reach(d, keys, i - 1)
         IN IF IsDict(parent) /\ keys[i] \in DOMAIN parent.v THEN parent.v[keys[i]] ELSE None

\* every intermediate key of the path resolves, through maps, to a map
ThroughMaps(d, keys) == \A i \in 0..(Len(keys) - 1) : IsDict(Reach(d, keys, i))

\* the executed list was one update_state action
WroteOnce ==
    /\ Executed
    /\ Len(e_out.actions) = 1
    /\ e_out.actions[1]["type"] = S("update_state")

\* C19: an update_state whose path has a missing intermediate key, or passes
\* through a value that is not a map, leaves the whole shared state as it was
\* and raises nothing; one whose intermediate keys all resolve through maps
\* sets the addressed leaf and changes nothing else.
C19_UpdateStatePaths ==
    WroteOnce =>
        LET keys == e_out.actions[1]["path"].v
            before == e_pre.objects.project_state
        IN /\ ~e_out.raised
           /\ inbox = e_pre.objects.inbox
           /\ human_inbox = e_pre.objects.human_inbox
           /\ uuids = e_pre.objects.uuids
           /\ IF ThroughMaps(before, keys)
              THEN /\ Reach(project_state, keys, Len(keys)) = e_out.actions[1]["value"]
                   /\ PutAt(project_state, keys, None) = PutAt(before, keys, None)
              ELSE project_state = before

\* a write through the text of 'status', on a state with counters set
C19_Witness ==
    /\ WroteOnce
    /\ e_out.actions[1]["path"].v = <<"status", "leaf">>
    /\ ~ThroughMaps(e_pre.objects.project_state, <<"status", "leaf">>)
    /\ e_pre.objects.project_state.v["deployment_retries"] = IntV(1)
    /\ project_state = e_pre.objects.project_state

\* ----------------------------------------- claims about send_human_message
\* the executed list was one send_human_message action
AskedOnce ==
    /\ Executed
    /\ Len(e_out.actions) = 1
    /\ e_out.actions[1]["type"] = S("send_human_message")

\* the context template is there and yields a value: it is plain text, or
\* its reference resolves in the event / the shared state
TemplateYields(template, event_data, pstate) ==
    /\ template.t = "str"
    /\ template.v # <<>>
    /\ \A k \in 1..Len(template.v) : ~RefMissing(template.v[k], event_data, pstate)

\* C20: the context id of the human message a send_human_message produces
\* is the value of the context template when the template yields one,
\* otherwise (no template, or its reference does not resolve) the event's
\* context_id when the event has one, otherwise a freshly minted id; the
\* message is appended at the tail of the human queue.
C20_HumanMessageContext ==
    AskedOnce =>
        LET action == e_out.actions[1]
            before == e_pre.objects
            template == Get(action, "context_id")
            from_event == Get(e_pre.event.v, "context_id")
            message == human_inbox[Len(human_inbox)]
        IN /\ ~e_out.raised
           /\ Len(human_inbox) = Len(before.human_inbox) + 1
           /\ SubSeq(human_inbox, 1, Len(before.human_inbox)) = before.human_inbox
           /\ message.type = action["message_type"]
           /\ IF TemplateYields(template, e_pre.event, before.project_state)
              THEN /\ message.context_id =
                          _substitute_template(template, e_pre.event, before.project_state)
                   /\ uuids = before.uuids
              ELSE IF Truthy(from_event)
              THEN message.context_id = from_event /\ uuids = before.uuids
              ELSE /\ message.context_id = S("u" \o ToString(uuids))
                   /\ uuids = before.uuids + 1

\* ------------------------------------------ claims about the pending prompt
Pending(pstate) == pstate.v["pending_human_approval_context"]

\* the messages for the human the last call queued, in order
Asked == SubSeq(human_inbox, Len(e_pre.objects.human_inbox) + 1, Len(human_inbox))

\* the kinds of message the human is expected to answer
AwaitingKinds == {"QUESTION", "CRITICAL_ISSUE", "INSTRUCTION"}
Awaits(message) == message.type.t = "str" /\ Joined(message.type.v) \in AwaitingKinds

\* C21: a message for the human of kind QUESTION, CRITICAL_ISSUE or
\* INSTRUCTION sets the pending-approval context to its context id, whatever
\* was pending before; a message of any other kind leaves it as it was.  So
\* after a call the pending context is that of the last such message the
\* call queued, and the one before the call if it queued none.
C21_PendingContext ==
    (Executed /\ ~e_out.raised) =>
        LET awaiting == {k \in 1..Len(Asked) : Awaits(Asked[k])}
        IN IF awaiting = {}
           THEN Pending(project_state) = Pending(e_pre.objects.project_state)
           ELSE Pending(project_state) =
                    Asked[CHOOSE k \in awaiting : \A j \in awaiting : j <= k].context_id

\* a question replaced the context of an earlier question still pending
C21_Witness ==
    /\ Executed /\ ~e_out.raised
    /\ Len(Asked) = 1
    /\ Awaits(Asked[1])
    /\ Truthy(Pending(e_pre.objects.project_state))
    /\ Asked[1].context_id = S("fixed")
    /\ Pending(e_pre.objects.project_state).v # <<"fixed">>
    /\ Pending(project_state) = S("fixed")

\* ------------------------------------------- claims about the context ledger
\* the executed list was one delegate_task action for a registered agent
DelegatedOnce ==
    /\ Executed
    /\ ~e_out.raised
    /\ Len(e_out.actions) = 1
    /\ e_out.actions[1]["type"] = S("delegate_task")
    /\ e_out.actions[1]["agent"] \in {S(a) : a \in AgentNames}

\* the agent and the task message of that delegation
DelegatedTo == Joined(e_out.actions[1]["agent"].v)
DelegatedTask == received[DelegatedTo][Len(received[DelegatedTo])]

\* the content template of the action, resolved against the event and the
\* shared state as they were
ResolvedPayload ==
    _substitute_template(GetOr(e_out.actions[1], "content", Dict(EmptyMap)),
                         e_pre.event, e_pre.objects.project_state)

RetryableNames == {"Quality Guardian", "Deployment Master"}

\* C22: the ledger entry written under the task's context id holds the task
\* name, the agent and the original payload, which is the resolved content
\* template without retry_attempt and task_name; the task message carries
\* that payload plus task_name, plus retry_attempt for a retryable agent.
C22_LedgerOriginalPayload ==
    DelegatedOnce =>
        LET entry == Ledger(project_state)[ContextKey(DelegatedTask.context_id)]
            payload == ResolvedPayload.v
            stamped == IF DelegatedTo \in RetryableNames
                       THEN {"task_name", "retry_attempt"} ELSE {"task_name"}
            sent == DelegatedTask.content.v
        IN /\ Len(received[DelegatedTo]) = Len(e_pre.objects.received[DelegatedTo]) + 1
           /\ entry.v["task_name"] = e_out.actions[1]["task"]
           /\ entry.v["agent"] = e_out.actions[1]["agent"]
           /\ DOMAIN entry.v["original_content"].v = DOMAIN payload
           /\ \A k \in DOMAIN payload : entry.v["original_content"].v[k] = payload[k]
           /\ DOMAIN sent = DOMAIN payload \cup stamped
           /\ \A k \in DOMAIN payload \ stamped : sent[k] = payload[k]
           /\ sent["task_name"] = e_out.actions[1]["task"]

\* ---------------------------------------------- claims about retry counters
\* the value of the per-context counter under key c, 0 when there is none
CounterOf(pstate, c) ==
    IF c \in DOMAIN PerContext(pstate) THEN PerContext(pstate)[c] ELSE IntV(0)
Deployments(pstate) == pstate.v["deployment_retries"]

\* the executed list was a write to a per-context counter, then one
\* delegate_task for a registered agent
WroteThenDelegated ==
    /\ Executed
    /\ ~e_out.raised
    /\ Len(e_out.actions) = 2
    /\ e_out.actions[1]["type"] = S("update_state")
    /\ Len(e_out.actions[1]["path"].v) = 2
    /\ e_out.actions[1]["path"].v[1] = "module_test_retries"
    /\ e_out.actions[2]["type"] = S("delegate_task")
    /\ e_out.actions[2]["agent"] \in {S(a) : a \in AgentNames}

\* what a task for agent a under context key c is stamped with, given the
\* counters as they are when it is delegated
StampedAs(a, sent, c, counter, deployments) ==
    CASE a = "Quality Guardian" -> sent["retry_attempt"] = counter
      [] a = "Deployment Master" -> sent["retry_attempt"] = deployments
      [] OTHER -> "retry_attempt" \notin DOMAIN sent

\* C23: the retry_attempt of a task delegated to the Quality Guardian is the
\* per-context counter of the task's context id as it is when the task is
\* delegated (0 when that context has none), that of a task for the
\* Deployment Master is the global deployment counter whatever the context,
\* and a task for any other agent has no retry_attempt.
C23_RetryAttemptStamp ==
    /\ DelegatedOnce =>
           LET c == ContextKey(DelegatedTask.context_id)
           IN StampedAs(DelegatedTo, DelegatedTask.content.v, c,
                        CounterOf(e_pre.objects.project_state, c),
                        Deployments(e_pre.objects.project_state))
    /\ WroteThenDelegated =>
           LET a == Joined(e_out.actions[2]["agent"].v)
               task == received[a][Len(received[a])]
               c == ContextKey(task.context_id)
           IN StampedAs(a, task.content.v, c,
                        IF e_out.actions[1]["path"].v[2] = c
                        THEN e_out.actions[1]["value"]
                        ELSE CounterOf(e_pre.objects.project_state, c),
                        Deployments(e_pre.objects.project_state))

\* a task for the Quality Guardian under a context whose counter stood at 2,
\* while the deployment counter stood at 1
C23_Witness ==
    /\ DelegatedOnce
    /\ DelegatedTo = "Quality Guardian"
    /\ DelegatedTask.context_id = S("c1")
    /\ DelegatedTask.content.v["retry_attempt"] = IntV(2)
    /\ Deployments(e_pre.objects.project_state) = IntV(1)

\* some update_state action of the list addresses the path
Writes(actions, path) ==
    \E k \in 1..Len(actions) :
        /\ actions[k]["type"] = S("update_state")
        /\ IsPrefix(actions[k]["path"].v, path)

\* C24: the value of a retry counter (0 for a context without counter)
\* changes only in a step that executes an update_state action addressing
\* it: no delegation, routing, activation, message for the human or human
\* response changes a per-context counter or the deployment counter.
C24_CountersChangeByUpdateOnly ==
    [][LET actions == ReturnedFor(Submitted)
       IN /\ \A c \in DOMAIN PerContext(project_state) \cup DOMAIN PerContext(project_state') :
                 CounterOf(project_state', c) # CounterOf(project_state, c) =>
                     Writes(actions, <<"module_test_retries", c>>)
          /\ Deployments(project_state') # Deployments(project_state) =>
                 Writes(actions, <<"deployment_retries">>)]_vars

\* a failed result made the handler count a retry and delegate the tests
\* again; the Deployment Master has been given a task as well
C24_Witness ==
    /\ CounterOf(project_state, "c1") = IntV(1)
    /\ \E i \in 1..Len(received["Quality Guardian"]) :
           /\ received["Quality Guardian"][i].type = "task"
           /\ received["Quality Guardian"][i].sender = OrchestratorName
           /\ "retry_attempt" \in DOMAIN received["Quality Guardian"][i].content.v
    /\ received["Deployment Master"] # <<>>
    /\ human_inbox # <<>>

\* C25: the retry counters are monotonic: no per-context counter and not the
\* deployment counter ever takes a value lower than one it held before.
C25_CountersMonotonic ==
    [][/\ \A c \in DOMAIN PerContext(project_state) :
              CounterOf(project_state', c).v >= CounterOf(project_state, c).v
       /\ Deployments(project_state').v >= Deployments(project_state).v]_vars

\* C26: a ledger entry is created by the first delegation under its context
\* id; a later delegation under the same context id leaves it as it was
\* (task name, agent and original payload), and no entry is ever removed.
C26_LedgerEntriesKept ==
    [][\A c \in DOMAIN Ledger(project_state) :
           /\ c \in DOMAIN Ledger(project_state')
           /\ Ledger(project_state')[c].v["task_name"] = Ledger(project_state)[c].v["task_name"]
           /\ Ledger(project_state')[c].v["agent"] = Ledger(project_state)[c].v["agent"]
           /\ Ledger(project_state')[c].v["original_content"] =
                  Ledger(project_state)[c].v["original_content"]]_vars

\* C27: a context id correlates one task: for every task message waiting in
\* an agent's mailbox the ledger has an entry under the message's context id
\* whose agent is that agent and whose task name is the message's.
C27_OneTaskPerContext ==
    \A a \in AgentNames : \A i \in 1..Len(inbox[a]) :
        inbox[a][i].type = "task" =>
            LET c == ContextKey(inbox[a][i].context_id)
            IN /\ c \in DOMAIN Ledger(project_state)
               /\ Ledger(project_state)[c].v["agent"] = S(a)
               /\ Ledger(project_state)[c].v["task_name"] = inbox[a][i].content.v["task_name"]

\* --------------------------------------------- claims about unknown names
\* the step takes a message for an unknown recipient from the internal queue
DropsUnknown ==
    /\ pc = "internal"
    /\ Head(internal_message_queue).recipient \notin AgentNames \cup {OrchestratorName}

\* the delegations of the list, and whether all of them name unknown agents
Delegations(actions) == OfType(actions, "delegate_task")
OnlyToUnknown(actions) ==
    /\ Delegations(actions) # <<>>
    /\ \A k \in 1..Len(Delegations(actions)) : ~Registered(Delegations(actions)[k]["agent"])

\* C28: a queued message whose recipient is neither the orchestrator nor a
\* registered agent is removed and dropped, with no change of a mailbox, of
\* the shared state or of the ledger, and the drain goes on with the next
\* message; a delegate_task naming an unregistered agent puts no task into
\* any mailbox and creates no ledger entry.
C28_UnknownNamesDropped ==
    [][/\ DropsUnknown =>
              /\ internal_message_queue' = Tail(internal_message_queue)
              /\ inbox' = inbox
              /\ project_state' = project_state
              /\ human_inbox' = human_inbox
              /\ pc' = AfterInternal(Tail(internal_message_queue), count + 1)
       /\ OnlyToUnknown(ReturnedFor(Submitted)) =>
              /\ inbox' = inbox
              /\ Ledger(project_state') = Ledger(project_state)]_vars

\* a message for nobody was taken from the queue and the drain went on to
\* the next one; a cancelled project made the handler delegate to nobody,
\* which the human was told
C28_Witness ==
    /\ \E i \in 1..Len(trace) :
           /\ trace[i].kind = "internal"
           /\ trace[i].message.recipient = "Nobody"
           /\ i < Len(trace)
           /\ trace[i + 1].kind = "internal"
    /\ \E k \in 1..Len(human_inbox) :
           /\ human_inbox[k].type = S("ERROR")
           /\ project_state.v["status"] = S("Project Cancelled")

\* --------------------------------------------- claims about containment
\* C29: nothing terminates the dispatch loop: whatever events, human
\* responses and routed messages arrive (messages without a context id
\* included), event submission and run_simulation_cycle complete without
\* an error leaving them.
C29_NothingTerminatesDispatch == pc # "crashed"

\* ------------------------------------------- claims about agent activations
\* C30: an agent's activation changes nothing but that agent's own mailbox
\* (its first message is taken) and the tail of the internal queue (the
\* messages that agent sent): the shared state with its ledger and
\* counters, the human queues and the other agents' mailboxes are as before.
C30_ActivationFrame ==
    [][pc = "agents" =>
           LET agent == Agents[count]
               grown == Len(internal_message_queue') - Len(internal_message_queue)
           IN /\ project_state' = project_state
              /\ human_inbox' = human_inbox
              /\ human_outbox' = human_outbox
              /\ \A b \in AgentNames \ {agent} : inbox'[b] = inbox[b]
              /\ inbox'[agent] = IF inbox[agent] = <<>> THEN <<>> ELSE Tail(inbox[agent])
              /\ grown >= 0
              /\ SubSeq(internal_message_queue', 1, Len(internal_message_queue))
                     = internal_message_queue
              /\ \A k \in 1..grown :
                     internal_message_queue'[Len(internal_message_queue) + k].sender = agent]_vars

\* an agent took a task while the project was started, the ledger held an
\* entry and another agent had mail; its result is the last message of the
\* internal queue
C30_Witness ==
    /\ trace # <<>>
    /\ LET step == trace[Len(trace)]
       IN /\ step.kind = "activate"
          /\ step.message.type = "task"
          /\ step.sent # <<>>
          /\ internal_message_queue # <<>>
          /\ internal_message_queue[Len(internal_message_queue)] = step.sent[1]
          /\ \E b \in AgentNames \ {step.agent} : inbox[b] # <<>>
    /\ started
    /\ Ledger(project_state) # EmptyMap

Concluded ==
    {S("App Live!"), S("Project Cancelled"), S("Deployment Failed (Escalated)"),
     S("Project Ended")}

\* C32: the driver enters run_simulation_cycle at most MAX_SIMULATION_STEPS
\* times and enters no cycle once the status is one of the concluded ones.
C32_DriverStops ==
    [][cycles' # cycles =>
           /\ cycles' = cycles + 1
           /\ cycles' <= MAX_SIMULATION_STEPS
           /\ project_state.v["status"] \notin Concluded]_vars

\* C33: a human response handed to the orchestrator is only queued at that
\* moment: it is fed to the engine as a human_input event at the start of
\* the next cycle, so the step that hands it over appends it to human_outbox
\* and executes no action of a handler (status and mailboxes as before).
C33_ResponseQueuedUntilNextCycle ==
    [][(AfterCycle /\ PromptDue /\ injected' # injected) =>
           /\ Len(human_outbox') = Len(human_outbox) + 1
           /\ project_state'.v["status"] = project_state.v["status"]
           /\ inbox' = inbox]_vars

\* ------------------------------------------- claims about check_condition
\* every check_condition before the k-th action held on the state the event
\* arrived with
CheckReached(k) ==
    \A j \in 1..(k - 1) :
        IsCheck(WinnerActions[j]) => CheckHolds(WinnerActions[j], e_pre.state)

\* the non-check actions among the first k
UpTo(k) == SelectSeq(SubSeq(WinnerActions, 1, k), NotCheck)

\* the last position after k before the next check_condition
Following(k) ==
    CHOOSE n \in k..Len(WinnerActions) :
        /\ \A j \in (k + 1)..n : NotCheck(WinnerActions[j])
        /\ n = Len(WinnerActions) \/ IsCheck(WinnerActions[n + 1])

\* an update_state action before the k-th action that would turn the
\* outcome of the check at k, were it applied first
TurnedByEarlierWrite(k) ==
    \E j \in 1..(k - 1) :
        /\ NotCheck(WinnerActions[j])
        /\ WinnerActions[j]["type"] = S("update_state")
        /\ CheckHolds(WinnerActions[k], Written(WinnerActions[j], e_pre.state))
               # CheckHolds(WinnerActions[k], e_pre.state)

\* C34: a check_condition is decided when the handler is selected, on the
\* shared state the event arrived with: the returned list goes on past a
\* check exactly when the check holds on that state, whatever the
\* update_state actions before it would write, and none of the returned
\* update_state actions has been applied when process_event returns.
C34_CheckOnArrivalState ==
    (Returned /\ Firing # {}) =>
        /\ \A k \in 1..Len(WinnerActions) :
               (IsCheck(WinnerActions[k]) /\ CheckReached(k)) =>
                   IF CheckHolds(WinnerActions[k], e_pre.state)
                   THEN IsPrefix(UpTo(Following(k)), e_out.actions)
                   ELSE e_out.actions = UpTo(k)
        /\ \A i \in 1..Len(e_out.actions) :
               e_out.actions[i]["type"] = S("update_state") =>
                   GetWalk(e_state, e_out.actions[i]["path"].v).val
                       = GetWalk(e_pre.state, e_out.actions[i]["path"].v).val

\* a check that failed on the arrival state and that an earlier update_state
\* of its handler would have made hold: the list ends before it
C34_Witness ==
    /\ Returned
    /\ Firing # {}
    /\ \E k \in 1..Len(WinnerActions) :
           /\ IsCheck(WinnerActions[k])
           /\ CheckReached(k)
           /\ TurnedByEarlierWrite(k)
           /\ ~CheckHolds(WinnerActions[k], e_pre.state)
           /\ e_out.actions = UpTo(k)
           /\ e_out.actions # <<>>

\* ------------------------------------------- claims about message delivery
\* C35: every message placed in a mailbox or in the internal queue is
\* consumed exactly once: what an agent received is what it has taken so far
\* followed by what still waits, in order, and no message taken from a
\* mailbox or from the queue is dropped unprocessed by an error.
C35_ConsumedExactlyOnce ==
    /\ \A a \in AgentNames : received[a] = activated[a] \o inbox[a]
    /\ \A i \in 1..Len(trace) :
           trace[i].message # NoMessage => ~trace[i].raised

\* ------------------------------------------ claims about human responses
\* the context id a response is handled under: its own, or the pending one
FinalContext(item, pstate) ==
    IF item.context_id = None THEN Pending(pstate) ELSE item.context_id

\* the shared state the response's event is matched against: the pending
\* context cleared if it is the response's final context id
Answered(item, pstate) ==
    IF Pending(pstate) = FinalContext(item, pstate)
    THEN PutAt(pstate, <<"pending_human_approval_context">>, None)
    ELSE pstate

\* C36: a response without context id is handled under the pending-approval
\* context id; the pending context is cleared iff the response's final
\* context id equals it and is left as it was for any other context id; and
\* exactly one human_input event, carrying the response and its final
\* context id, is fed to the engine, whose actions are then executed.
C36_HumanResponseHandling ==
    [][(pc = "humans" /\ pc' # "crashed") =>
           \A item \in {Head(human_outbox)} :
               \A o \in {SubmitEvent(
                             [Objects EXCEPT !.project_state = Answered(item, @)],
                             config, "human_input",
                             Dict([response |-> item.response,
                                   context_id |-> FinalContext(item, project_state)]))} :
                   /\ project_state' = o.project_state
                   /\ inbox' = o.inbox
                   /\ human_inbox' = o.human_inbox
                   /\ uuids' = o.uuids]_vars

\* a response for another context was handled while a question was pending:
\* its handler ran and the pending context is still there
C36_Witness ==
    /\ trace # <<>>
    /\ trace[Len(trace)].kind = "human"
    /\ Truthy(Pending(project_state))
    /\ Pending(project_state) # S("c1")
    /\ project_state.v["status"] = S("Approved")
    /\ "c1" \in DOMAIN Ledger(project_state)

\* ------------------------------------- claims about the unresolved marker
\* C37: the text 'N/A' that stands for an unresolved reference is never a
\* correlation key: no task message, no message for the human and no ledger
\* entry has the context id 'N/A'.
C37_SentinelNeverContext ==
    /\ \A a \in AgentNames : \A i \in 1..Len(received[a]) :
           received[a][i].context_id # S("N/A")
    /\ \A k \in 1..Len(human_inbox) : human_inbox[k].context_id # S("N/A")
    /\ "N/A" \notin DOMAIN Ledger(project_state)

\* --------------------------------------- claims about template resolution
\* the text one reference stands for, read from the event or the state
TextOf(tok, event_data, pstate) ==
    LET w == GetWalk(IF IsEventRef(tok) THEN event_data ELSE pstate, RefOf(tok).key_path)
    IN IF w.val = None THEN <<"N/A">> ELSE StrOf(w.val)

\* the template with every reference replaced once, the inserted text taken
\* literally
RECURSIVE SinglePass(_, _, _)
SinglePass(template, event_data, pstate) ==
    IF template = <<>> THEN <<>>
    ELSE (IF IsRef(Head(template))
          THEN TextOf(Head(template), event_data, pstate)
          ELSE <<Head(template)>>)
         \o SinglePass(Tail(template), event_data, pstate)

\* C38: template resolution is single-pass: the text inserted for a
\* reference is never itself read as a template, so event data of the form
\* {{state.x}} or {{event.y}} stays literally in the output.
C38_SinglePassResolution ==
    e_out.call = "_substitute_template" =>
        e_out.text = SinglePass(e_out.template, e_pre.event, e_pre.state)

\* ------------------------------------------ claims about the end of a cycle
\* the messages the internal drain of the current cycle has taken, in order
Drained ==
    LET steps == SelectSeq(trace, LAMBDA step : step.kind = "internal")
    IN [i \in 1..Len(steps) |-> steps[i].message]

\* a cycle has ended, and the internal messages it met were those its own
\* activations sent: the queue was empty when it began and nobody else
\* enqueued a message
OnlyWorkersEnqueued ==
    /\ pc \in {"idle", "crashed"}
    /\ trace # <<>>
    /\ Drained \o internal_message_queue = SentFrom(1)

\* C39: when only the agents enqueue internal messages, the internal queue
\* is empty at the end of every cycle: each result an agent sent in the
\* cycle was fed to the engine in that cycle, none was deferred by the cap.
C39_QueueEmptyAtCycleEnd ==
    OnlyWorkersEnqueued => internal_message_queue = <<>>

====
